---- MODULE Spec2Model ----
(***************************************************************************)
(* Model of the skin-cancer statistics query path of the onboarding        *)
(* backend: the filter application, the count, the paged retrieval and the *)
(* grouped aggregation of CRUDSkinCancer (src/app/crud/crud_skin_cancer.py)*)
(* and the two HTTP handlers in src/app/api/v1/skin_cancer.py.             *)
(*                                                                         *)
(* The skin_cancer_data table is a sequence of rows.  An Optional[T] value *)
(* of a FilterSpec is a set with at most one element: {} is None.          *)
(***************************************************************************)
EXTENDS Integers, Sequences, FiniteSets, TLC

VARIABLES store, pc, req, resp, queries,
          users, locations, temperature_records, uv_records, calls, env, dbm

vars == <<store, pc, req, resp, queries,
          users, locations, temperature_records, uv_records, calls, env, dbm>>

(* The variables of the skin-cancer and map requests, of the weather
   pipeline and of the database session manager. *)
svars == <<store, pc, req, resp, queries>>

wvars == <<users, locations, temperature_records, uv_records, calls, env>>

(* What the outside world did: the outcome of the latest provider and
   geocoding calls, the latest error of a persistence step, whether the
   database ever refused a statement, and whether two requests were ever in
   flight together. *)
NoEnv ==
  [fetch |-> [call |-> 0, provider |-> "none", geocode |-> "none"],
   fault |-> [call |-> 0, step |-> "none", error |-> "none"],
   refused |-> FALSE,
   overlap |-> FALSE]

NoRequest ==
  /\ store = <<>>
  /\ pc = "idle"
  /\ req = [op |-> "none"]
  /\ resp = [status |-> 0]
  /\ queries = <<>>

NoWeather ==
  /\ users = <<>>
  /\ locations = <<>>
  /\ temperature_records = <<>>
  /\ uv_records = <<>>
  /\ calls = <<>>
  /\ env = NoEnv

(* DatabaseSessionManager.__init__ *)
NewManager == dbm = [_initialized |-> FALSE, calls |-> <<>>]

(***************************************************************************)
(* Bounds of the model.                                                    *)
(***************************************************************************)
MaxRows == 3

MaxGroupBy == 3

MaxSkip == 1

MaxLimit == 2

MaxMetrics == 2

(***************************************************************************)
(* Values of the program.                                                  *)
(***************************************************************************)
MELANOMA == "Melanoma of the skin"

ValidFields == <<"data_type", "year", "sex", "age_group">>

DataTypeEnum == {"Actual", "Projections"}

SexEnum == {"Females", "Males"}

AgeGroupEnum == {"00-04", "05-09"}

SkinCancerData ==
  { [data_type |-> "Actual", cancer_group |-> MELANOMA, year |-> 2020,
     sex |-> "Males", age_group |-> "00-04", count |-> 5],
    [data_type |-> "Actual", cancer_group |-> MELANOMA, year |-> 2020,
     sex |-> "Males", age_group |-> "05-09", count |-> 3],
    [data_type |-> "Actual", cancer_group |-> MELANOMA, year |-> 2020,
     sex |-> "Females", age_group |-> "00-04", count |-> 2],
    [data_type |-> "Projections", cancer_group |-> MELANOMA, year |-> 2021,
     sex |-> "Males", age_group |-> "00-04", count |-> 3],
    [data_type |-> "Actual", cancer_group |-> "Non-melanoma skin cancer",
     year |-> 2020, sex |-> "Males", age_group |-> "00-04", count |-> 7] }

Range(s) == {s[i] : i \in 1..Len(s)}

SeqsUpTo(S, n) == UNION {[1..k -> S] : k \in 0..n}

Min(a, b) == IF a <= b THEN a ELSE b

(* Optional[T]: None is {}, a value v is {v}. *)
None == {}

Optional(S) == {None} \cup {{v} : v \in S}

(* The FilterSpecs of the requests: every field unset or set to a value of
   its type; year 0 is an integer the year parameter accepts. *)
SkinCancerFilter ==
  [data_type : Optional(DataTypeEnum), year : Optional({0, 2020}),
   sex : Optional({"Males"}), age_group : Optional({"00-04"})]

(* Python truthiness of an Optional[int] and of an Optional[str]. *)
TruthyInt(o) == o /= None /\ 0 \notin o

TruthyStr(o) == o /= None /\ "" \notin o

(***************************************************************************)
(* CRUDSkinCancer._apply_filters: the WHERE clause, applied to the rows of *)
(* the table the query selects from.                                       *)
(***************************************************************************)
FilterConditionsNoCancerGroup(r, filters) ==
  /\ TruthyStr(filters.data_type) => {r.data_type} = filters.data_type
  /\ TruthyInt(filters.year) => {r.year} = filters.year
  /\ TruthyStr(filters.sex) => {r.sex} = filters.sex
  /\ TruthyStr(filters.age_group) => {r.age_group} = filters.age_group

FilterConditions(r, filters) ==
  /\ r.cancer_group = MELANOMA
  /\ TruthyStr(filters.data_type) => {r.data_type} = filters.data_type
  /\ TruthyInt(filters.year) => {r.year} = filters.year
  /\ TruthyStr(filters.sex) => {r.sex} = filters.sex
  /\ TruthyStr(filters.age_group) => {r.age_group} = filters.age_group

_apply_filters(query, filters) ==
  SelectSeq(query, LAMBDA r : FilterConditions(r, filters))

count_filtered(db, filters) == Len(_apply_filters(db, filters))

get_filtered_limit_from_start(db, filters, skip, limit) ==
  LET q == _apply_filters(db, filters)
  IN  SubSeq(q, skip + 1, Min(Len(q), limit))

get_filtered(db, filters, skip, limit) ==
  LET q == _apply_filters(db, filters)
  IN  SubSeq(q, skip + 1, Min(Len(q), skip + limit))

(***************************************************************************)
(* CRUDSkinCancer.get_grouped_data, step 1: the validation of group_by.    *)
(***************************************************************************)
ValidateGroupByStrict(group_by) ==
  IF \E i \in 1..Len(group_by) : group_by[i] \notin Range(ValidFields)
  THEN <<>>
  ELSE group_by

ValidateGroupBy(group_by) ==
  SelectSeq(group_by, LAMBDA field : field \in Range(ValidFields))

(***************************************************************************)
(* Steps 2 and 3: SELECT <group_by>, SUM(count) AS count ... WHERE ...     *)
(* GROUP BY <group_by>.  A result row maps a column name to its value; the *)
(* database returns one row per distinct combination of the group-by       *)
(* values, in an order it chooses.                                         *)
(***************************************************************************)
GroupKey(r, group_by) == [i \in 1..Len(group_by) |-> r[group_by[i]]]

GroupKeys(q, group_by) == {GroupKey(q[i], group_by) : i \in 1..Len(q)}

RECURSIVE SumCountAsRowCount(_, _, _)
SumCountAsRowCount(q, group_by, key) ==
  IF Len(q) = 0 THEN 0
  ELSE (IF GroupKey(Head(q), group_by) = key THEN 1 ELSE 0)
       + SumCountAsRowCount(Tail(q), group_by, key)

RECURSIVE SumCount(_, _, _)
SumCount(q, group_by, key) ==
  IF Len(q) = 0 THEN 0
  ELSE (IF GroupKey(Head(q), group_by) = key THEN Head(q).count ELSE 0)
       + SumCount(Tail(q), group_by, key)

SelectColumns(group_by, metrics) ==
  Range(group_by) \cup {m \in Range(metrics) : m = "count"}

GroupedRow(q, group_by, metrics, key) ==
  [c \in SelectColumns(group_by, metrics) |->
     IF c = "count" THEN SumCount(q, group_by, key)
     ELSE key[CHOOSE i \in 1..Len(group_by) : group_by[i] = c]]

RowOrders(keys) ==
  {o \in [1..Cardinality(keys) -> keys] :
     \A i, j \in 1..Cardinality(keys) : o[i] = o[j] => i = j}

ExecuteGrouped(db, filters, group_by, metrics) ==
  LET q == _apply_filters(db, filters)
  IN  {[i \in 1..Len(o) |-> GroupedRow(q, group_by, metrics, o[i])] :
         o \in RowOrders(GroupKeys(q, group_by))}

(***************************************************************************)
(* Step 4: CRUDSkinCancer._format_grouped_data.  A dict is a function; an  *)
(* assignment d[k] = v replaces the entry of k.                            *)
(***************************************************************************)
EmptyDict == <<>>

SetItem(d, k, v) == (k :> v) @@ d

MetricValues(row, metrics) == [m \in Range(metrics) |-> row[m]]

FormatOneFieldFirstRowOnly(rows, field, metrics) ==
  IF Len(rows) = 0 THEN EmptyDict
  ELSE SetItem(EmptyDict, rows[1][field], MetricValues(rows[1], metrics))

RECURSIVE FormatOneField(_, _, _)
FormatOneField(rows, field, metrics) ==
  IF Len(rows) = 0 THEN EmptyDict
  ELSE LET row == rows[Len(rows)]
           d == FormatOneField(SubSeq(rows, 1, Len(rows) - 1), field, metrics)
       IN  SetItem(d, row[field], MetricValues(row, metrics))

RECURSIVE FormatTwoFieldsNoGuard(_, _, _, _)
FormatTwoFieldsNoGuard(rows, field1, field2, metrics) ==
  IF Len(rows) = 0 THEN EmptyDict
  ELSE LET row == rows[Len(rows)]
           d == FormatTwoFieldsNoGuard(SubSeq(rows, 1, Len(rows) - 1),
                                       field1, field2, metrics)
       IN  SetItem(d, row[field1],
                   SetItem(EmptyDict, row[field2], MetricValues(row, metrics)))

RECURSIVE FormatTwoFields(_, _, _, _)
FormatTwoFields(rows, field1, field2, metrics) ==
  IF Len(rows) = 0 THEN EmptyDict
  ELSE LET row == rows[Len(rows)]
           d == FormatTwoFields(SubSeq(rows, 1, Len(rows) - 1),
                                field1, field2, metrics)
           key1 == row[field1]
           key2 == row[field2]
           inner == IF key1 \in DOMAIN d THEN d[key1] ELSE EmptyDict
       IN  SetItem(d, key1, SetItem(inner, key2, MetricValues(row, metrics)))

FormatItemMetricsOnly(row, group_by, metrics) ==
  [k \in Range(metrics) |-> row[k]]

FormatItem(row, group_by, metrics) ==
  [k \in Range(group_by) \cup Range(metrics) |-> row[k]]

_format_grouped_data(rows, group_by, metrics) ==
  IF Len(group_by) = 1
  THEN SetItem(EmptyDict, group_by[1],
               FormatOneField(rows, group_by[1], metrics))
  ELSE IF Len(group_by) = 2
  THEN SetItem(EmptyDict, group_by[1] \o "_" \o group_by[2],
               FormatTwoFields(rows, group_by[1], group_by[2], metrics))
  ELSE SetItem(EmptyDict, "data",
               [i \in 1..Len(rows) |-> FormatItem(rows[i], group_by, metrics)])

(* getattr(row, metric) raises AttributeError for a column the row lacks. *)
FormatRaises(rows, metrics) ==
  \E i \in 1..Len(rows) : \E m \in Range(metrics) : m \notin DOMAIN rows[i]

(* group_by = [field for field in group_by if field in valid_fields]
   if not group_by: raise ValueError(...) *)
NoValidFieldRawCheck(group_by_arg) == Len(group_by_arg) = 0

NoValidField(group_by_arg) == Len(ValidateGroupBy(group_by_arg)) = 0

NoValidFieldMessage ==
  <<"At least one valid field must be specified for grouping">>

(***************************************************************************)
(* CRUDSkinCancer.get_grouped_data: the set of outcomes of one call (one   *)
(* per order in which the database may return the rows).                   *)
(***************************************************************************)
get_grouped_data(db, filters, group_by_arg, metrics) ==
  LET group_by == ValidateGroupBy(group_by_arg)
  IN  IF NoValidField(group_by_arg)
      THEN {[kind |-> "ValueError", msg |-> NoValidFieldMessage,
             queries |-> <<>>]}
      ELSE {IF FormatRaises(rows, metrics)
            THEN [kind |-> "AttributeError",
                  queries |-> <<[kind |-> "grouped", group_by |-> group_by,
                                 rows |-> rows]>>]
            ELSE [kind |-> "ok",
                  data |-> _format_grouped_data(rows, group_by, metrics),
                  queries |-> <<[kind |-> "grouped", group_by |-> group_by,
                                 rows |-> rows]>>] :
              rows \in ExecuteGrouped(db, filters, group_by, metrics)}

(***************************************************************************)
(* The inputs of the requests.                                             *)
(***************************************************************************)
FieldNames == Range(ValidFields) \cup {"bogus"}

GroupByLists == SeqsUpTo(FieldNames, MaxGroupBy)

DefaultMetrics == <<"count">>

NoReq == [op |-> "none"]

NoResp == [status |-> 0]

Init ==
  /\ store \in SeqsUpTo(SkinCancerData, MaxRows)
  /\ pc = "idle"
  /\ req = NoReq
  /\ resp = NoResp
  /\ queries = <<>>
  /\ NoWeather
  /\ NewManager

(***************************************************************************)
(* GET /api/v1/skin-cancer                                                 *)
(***************************************************************************)
get_skin_cancer_data(filters, skip, limit) ==
  /\ pc = "idle"
  /\ pc' = "done"
  /\ req' = [op |-> "get_skin_cancer_data", filters |-> filters,
             skip |-> skip, limit |-> limit]
  /\ resp' = [status |-> 200,
              data |-> get_filtered(store, filters, skip, limit),
              total |-> count_filtered(store, filters)]
  /\ queries' = <<[kind |-> "select"], [kind |-> "count"]>>
  /\ UNCHANGED store

(***************************************************************************)
(* A direct call of skin_cancer_crud.get_grouped_data.                     *)
(***************************************************************************)
CallGetGroupedData(filters, group_by) ==
  /\ pc = "idle"
  /\ pc' = "done"
  /\ req' = [op |-> "get_grouped_data", filters |-> filters,
             group_by |-> group_by, metrics |-> DefaultMetrics]
  /\ \E out \in get_grouped_data(store, filters, group_by, DefaultMetrics) :
        /\ resp' = [f \in DOMAIN out \ {"queries"} |-> out[f]]
        /\ queries' = out.queries
  /\ UNCHANGED store

(***************************************************************************)
(* GET /api/v1/skin-cancer/visualization                                   *)
(***************************************************************************)
invalid_fields_lenient(group_by) ==
  IF \E i \in 1..Len(group_by) : group_by[i] \in Range(ValidFields)
  THEN <<>>
  ELSE group_by

invalid_fields(group_by) ==
  SelectSeq(group_by, LAMBDA field : field \notin Range(ValidFields))

RECURSIVE Join(_, _)
Join(names, sep) ==
  IF Len(names) = 0 THEN <<>>
  ELSE IF Len(names) = 1 THEN names
  ELSE <<Head(names), sep>> \o Join(Tail(names), sep)

InvalidFieldsMessage(names) ==
  <<"Invalid group_by fields: ">> \o Join(names, ", ")

get_skin_cancer_visualization(group_by, filters) ==
  /\ pc = "idle"
  /\ pc' = "done"
  /\ req' = [op |-> "get_skin_cancer_visualization", filters |-> filters,
             group_by |-> group_by]
  /\ IF Len(invalid_fields(group_by)) > 0
     THEN /\ resp' = [status |-> 400,
                      detail |-> InvalidFieldsMessage(invalid_fields(group_by))]
          /\ queries' = <<>>
     ELSE \E out \in get_grouped_data(store, filters, group_by, <<"count">>) :
            IF out.kind = "ValueError"
            THEN /\ resp' = [status |-> 400, detail |-> out.msg]
                 /\ queries' = out.queries
            ELSE IF out.kind = "ok"
            THEN /\ resp' = [status |-> 200, data |-> out.data,
                             total |-> count_filtered(store, filters)]
                 /\ queries' = out.queries \o <<[kind |-> "count"]>>
            ELSE /\ resp' = [status |-> 500,
                      detail |->
                        <<"Error fetching skin cancer visualization data">>]
                 /\ queries' = out.queries
  /\ UNCHANGED store

Request ==
  \/ \E filters \in SkinCancerFilter, skip \in 0..MaxSkip,
        limit \in 1..MaxLimit :
        get_skin_cancer_data(filters, skip, limit)
  \/ \E filters \in SkinCancerFilter, group_by \in GroupByLists :
        CallGetGroupedData(filters, group_by)
  \/ \E filters \in SkinCancerFilter, group_by \in GroupByLists \ {<<>>} :
        get_skin_cancer_visualization(group_by, filters)

Next == pc = "idle" /\ Request /\ UNCHANGED <<wvars, dbm>>

Spec == Init /\ [][Next]_vars

(***************************************************************************)
(* A direct call of skin_cancer_crud.get_grouped_data with a metrics list  *)
(* of the caller's choice and a group_by of valid field names.             *)
(***************************************************************************)
MetricNames == {"count", "avg"}

MetricsLists == SeqsUpTo(MetricNames, MaxMetrics)

ValidGroupByLists ==
  {g \in GroupByLists : Len(g) > 0 /\ Range(g) \subseteq Range(ValidFields)}

MetricsFilters ==
  {f \in SkinCancerFilter :
     f.year = None /\ f.sex = None /\ f.age_group = None}

CallGetGroupedDataMetrics(filters, group_by, metrics) ==
  /\ pc = "idle"
  /\ pc' = "done"
  /\ req' = [op |-> "get_grouped_data_metrics", filters |-> filters,
             group_by |-> group_by, metrics |-> metrics]
  /\ \E out \in get_grouped_data(store, filters, group_by, metrics) :
        /\ resp' = [f \in DOMAIN out \ {"queries"} |-> out[f]]
        /\ queries' = out.queries
  /\ UNCHANGED store

NextMetrics ==
  /\ pc = "idle"
  /\ \E filters \in MetricsFilters, group_by \in ValidGroupByLists,
        metrics \in MetricsLists :
        CallGetGroupedDataMetrics(filters, group_by, metrics)
  /\ UNCHANGED <<wvars, dbm>>

SpecMetrics == Init /\ [][NextMetrics]_vars

(***************************************************************************)
(* Python str operations, on strings held as sequences of characters.      *)
(***************************************************************************)
UpperChars ==
  <<"A", "B", "C", "D", "E", "F", "G", "H", "I", "J", "K", "L", "M",
    "N", "O", "P", "Q", "R", "S", "T", "U", "V", "W", "X", "Y", "Z">>

LowerChars ==
  <<"a", "b", "c", "d", "e", "f", "g", "h", "i", "j", "k", "l", "m",
    "n", "o", "p", "q", "r", "s", "t", "u", "v", "w", "x", "y", "z">>

Digits == <<"0", "1", "2", "3", "4", "5", "6", "7", "8", "9">>

LowerChar(ch) ==
  IF \E i \in DOMAIN UpperChars : UpperChars[i] = ch
  THEN LowerChars[CHOOSE i \in DOMAIN UpperChars : UpperChars[i] = ch]
  ELSE ch

UpperChar(ch) ==
  IF \E i \in DOMAIN LowerChars : LowerChars[i] = ch
  THEN UpperChars[CHOOSE i \in DOMAIN LowerChars : LowerChars[i] = ch]
  ELSE ch

(* str.lower(), str.upper(), str.capitalize(), str.replace(" ", "_"), str(int) *)
lower(s) == [i \in 1..Len(s) |-> LowerChar(s[i])]

upper(s) == [i \in 1..Len(s) |-> UpperChar(s[i])]

capitalize(s) ==
  [i \in 1..Len(s) |-> IF i = 1 THEN UpperChar(s[i]) ELSE LowerChar(s[i])]

replace_space(s) == [i \in 1..Len(s) |-> IF s[i] = " " THEN "_" ELSE s[i]]

RECURSIVE str(_)
str(n) ==
  IF n < 10 THEN <<Digits[n + 1]>>
  ELSE str(n \div 10) \o <<Digits[(n % 10) + 1]>>

(***************************************************************************)
(* POST /api/v1/weather: the tables of the store it writes, and the        *)
(* requests in flight.  A table is the sequence of its rows in insertion   *)
(* order; a row's id is its position, rows are never deleted.              *)
(***************************************************************************)
MaxCalls == 2

(* A users table that accepts a row without an email. *)
UserNotNullUnchecked(row) == TRUE

(* A column that the caller may leave unset holds an Optional value; NULL
   is None.  User.email is nullable=False; name and username, nullable=False
   too, are always passed to the constructor. *)
UserNotNull(row) == row.email /= None

(* User.email and User.username are unique=True. *)
UserUnique(table, row) ==
  \A i \in DOMAIN table :
     /\ row.email /= None => table[i].email /= row.email
     /\ table[i].username /= row.username

(* Location declares no unique constraint; a constraint on the coordinates
   would be this one. *)
LocationUniqueCoordinates(table, row) ==
  \A i \in DOMAIN table :
     ~(table[i].latitude = row.latitude /\ table[i].longitude = row.longitude)

LocationUnique(table, row) == TRUE

(* TemperatureRecord.temperature and UVRecord.uv_index are nullable=False. *)
TemperatureNotNull(row) == row.temperature /= None

UVNotNull(row) == row.uv_index /= None

(* result.scalars().first() : the id of the first matching row, 0 (None)
   when no row matches. *)
first(matching) ==
  IF matching = {} THEN 0
  ELSE CHOOSE i \in matching : \A j \in matching : i <= j

get_by_name(table, name) ==
  first({i \in DOMAIN table : table[i].name = name})

get_by_username(table, username) ==
  first({i \in DOMAIN table : table[i].username = username})

get_by_coordinates(table, latitude, longitude) ==
  first({i \in DOMAIN table :
            table[i].latitude = latitude /\ table[i].longitude = longitude})

(* The rows the store starts with: users registered with an email. *)
SeedUsers ==
  << [name |-> <<"A", "l", " ", "B">>, username |-> <<"a", "l", "_", "b">>,
      email |-> {"al@example.com"}],
     [name |-> <<"B", "o">>, username |-> <<"a", "l", "_", "b", "_", "1">>,
      email |-> {"bo@example.com"}] >>

DisplayNames == {<<"A", "l", " ", "B">>, <<"a", "l", " ", "B">>}

Latitudes == {-37}

Longitudes == {144, 151}

(* The "current" object of the provider's reply. *)
CurrentWeather == [temp |-> 21, uvi |-> 5]

ProviderOutcomes ==
  {"ok", "no_api_key", "transport_error", "http_status_error", "no_current"}

GeocodeOutcomes ==
  {"ok", "no_api_key", "transport_error", "api_error", "zero_results",
   "not_in_australia"}

(* dict.get(key, default) *)
Get(dict, key, default) == IF key \in DOMAIN dict THEN dict[key] ELSE default

(* dict.get(key) *)
GetOptional(dict, key) == IF key \in DOMAIN dict THEN {dict[key]} ELSE None

Raise(kind, msg) == [kind |-> kind, msg |-> msg]

Return(value) == [kind |-> "ok", value |-> value]

(* GoogleMapsService.reverse_geocode, by what the geocoding provider does. *)
reverse_geocode(geocode, lat, lng) ==
  CASE geocode = "no_api_key" ->
         Raise("ValueError", "Google Maps API key is not configured")
    [] geocode = "transport_error" ->
         Raise("ValueError", "Error reverse geocoding")
    [] geocode = "api_error" ->
         Raise("ValueError", "Google Reverse Geocoding API error")
    [] geocode = "zero_results" ->
         Return([lat |-> lat, lng |-> lng])
    [] geocode = "not_in_australia" ->
         Raise("ValueError", "Location is not in Australia")
    [] OTHER ->
         Return([formatted_address |-> "1 Swanston St, Melbourne",
                 name |-> "1 Swanston St, Melbourne",
                 lat |-> lat, lng |-> lng,
                 city |-> "Melbourne", country |-> "Australia"])

UnknownLocation(lat, lon) ==
  [lat |-> lat, lng |-> lon, city |-> "Unknown", country |-> "Unknown",
   formatted_address |-> "Unknown"]

FormatSnapshot(location_info, lat, lon) ==
  [location |->
     [name |-> Get(location_info, "formatted_address", "Unknown"),
      address |-> Get(location_info, "formatted_address", "Unknown"),
      lat |-> lat,
      lon |-> lon,
      country |-> Get(location_info, "country", "Unknown"),
      city |-> Get(location_info, "city", "Unknown")],
   current |-> CurrentWeather]

(* get_weather_data without the fallback: a geocoding failure propagates. *)
get_weather_data_geocode_raises(provider, geocode, lat, lon) ==
  CASE provider = "no_api_key" ->
         Raise("ValueError", "OpenWeatherMap API key is not configured")
    [] provider \in {"transport_error", "http_status_error"} ->
         Raise("ValueError", "Error fetching weather data")
    [] provider = "no_current" ->
         Raise("KeyError", "current")
    [] OTHER ->
         LET r == reverse_geocode(geocode, lat, lon)
         IN  IF r.kind = "ok"
             THEN Return(FormatSnapshot(r.value, lat, lon))
             ELSE r

(* WeatherService.get_weather_data *)
get_weather_data(provider, geocode, lat, lon) ==
  CASE provider = "no_api_key" ->
         Raise("ValueError", "OpenWeatherMap API key is not configured")
    [] provider \in {"transport_error", "http_status_error"} ->
         Raise("ValueError", "Error fetching weather data")
    [] provider = "no_current" ->
         Raise("KeyError", "current")
    [] OTHER ->
         LET r == reverse_geocode(geocode, lat, lon)
             location_info == IF r.kind = "ok" THEN r.value
                              ELSE UnknownLocation(lat, lon)
         IN  Return(FormatSnapshot(location_info, lat, lon))

(* The handler has returned: its locals user, username, counter and location
   are gone. *)
Returned(call) ==
  [call EXCEPT !.pc = "done", !.user = 0, !.username = <<>>, !.counter = 0,
               !.location = 0]

(* get_weather's outer handlers: ValueError -> 400, any other -> 500. *)
WeatherError(call, r) ==
  [Returned(call) EXCEPT
     !.status = IF r.kind = "ValueError" THEN 400 ELSE 500,
     !.body = [detail |-> IF r.kind = "ValueError" THEN r.msg
                          ELSE "Error fetching weather data",
               weather |-> {}]]

(* get_weather returns the WeatherResponse built from weather_data. *)
Respond(call) ==
  [Returned(call) EXCEPT !.status = 200,
                         !.body = [detail |-> "", weather |-> call.weather]]

(* The inner handler that lets the error of a persistence step out. *)
SaveFailedPropagates(call) ==
  [Returned(call) EXCEPT !.saved = FALSE, !.status = 500,
                         !.body = [detail |-> "Error fetching weather data",
                                   weather |-> {}]]

(* get_weather's inner "except Exception": log, then respond as usual. *)
SaveFailed(call) == Respond([call EXCEPT !.saved = FALSE])

Fault(c, error) ==
  [env EXCEPT !.fault = [call |-> c, step |-> calls[c].pc, error |-> error]]

NewCall(lat, lon, name) ==
  [pc |-> "get_weather_data", lat |-> lat, lon |-> lon, name |-> name,
   weather |-> {}, user |-> 0, username |-> <<>>, counter |-> 0,
   location |-> 0, saved |-> TRUE, status |-> 0,
   body |-> [detail |-> "", weather |-> {}]]

InFlight == {c \in DOMAIN calls : calls[c].pc /= "done"}

SavePcs ==
  {"get_by_name", "username_taken", "add_user", "get_by_coordinates",
   "create_with_user", "create_temperature_record", "create_uv_record"}

(* A request arrives. *)
post_weather(lat, lon, name) ==
  /\ Len(calls) < MaxCalls
  /\ calls' = Append(calls, NewCall(lat, lon, name))
  /\ env' = [env EXCEPT !.overlap = @ \/ InFlight /= {}]
  /\ UNCHANGED <<users, locations, temperature_records, uv_records>>

(* weather_data = await weather_service.get_weather_data(lat, lon) *)
FetchWeather(c, provider, geocode) ==
  /\ calls[c].pc = "get_weather_data"
  /\ LET r == get_weather_data(provider, geocode, calls[c].lat, calls[c].lon)
     IN  calls' = [calls EXCEPT ![c] =
                     IF r.kind = "ok"
                     THEN [@ EXCEPT !.pc = "get_by_name",
                                    !.weather = {r.value}]
                     ELSE WeatherError(@, r)]
  /\ env' = [env EXCEPT !.fetch = [call |-> c, provider |-> provider,
                                   geocode |-> geocode]]
  /\ UNCHANGED <<users, locations, temperature_records, uv_records>>

TheWeather(call) == CHOOSE w \in call.weather : TRUE

Slug(name) == replace_space(lower(name))

(* user = self.get_by_name(db, name=name); if not user: username = ... *)
GetByName(c) ==
  /\ calls[c].pc = "get_by_name"
  /\ LET user == get_by_name(users, calls[c].name)
     IN  calls' = [calls EXCEPT ![c] =
                     IF user /= 0
                     THEN [@ EXCEPT !.pc = "get_by_coordinates",
                                    !.user = user]
                     ELSE [@ EXCEPT !.pc = "username_taken",
                                    !.username = Slug(calls[c].name),
                                    !.counter = 1]]
  /\ UNCHANGED <<users, locations, temperature_records, uv_records, env>>

(* while db.execute(select ... username == username).first():
       username = f"{base_username}_{counter}"; counter += 1 *)
UsernameTaken(c) ==
  /\ calls[c].pc = "username_taken"
  /\ calls' = [calls EXCEPT ![c] =
                 IF get_by_username(users, calls[c].username) /= 0
                 THEN [@ EXCEPT !.username =
                                   Slug(calls[c].name) \o <<"_">>
                                      \o str(calls[c].counter),
                                !.counter = @ + 1]
                 ELSE [@ EXCEPT !.pc = "add_user"]]
  /\ UNCHANGED <<users, locations, temperature_records, uv_records, env>>

(* user = User(name=name, username=username); db.add; db.commit *)
AddUser(c) ==
  /\ calls[c].pc = "add_user"
  /\ LET row == [name |-> calls[c].name, username |-> calls[c].username,
                 email |-> None]
     IN  IF UserNotNull(row) /\ UserUnique(users, row)
         THEN /\ users' = Append(users, row)
              /\ calls' = [calls EXCEPT ![c].pc = "get_by_coordinates",
                                        ![c].user = Len(users) + 1]
              /\ env' = env
         ELSE /\ users' = users
              /\ calls' = [calls EXCEPT ![c] = SaveFailed(@)]
              /\ env' = Fault(c, "IntegrityError")
  /\ UNCHANGED <<locations, temperature_records, uv_records>>

(* existing_location = location_crud.get_by_coordinates(...) *)
GetByCoordinates(c) ==
  /\ calls[c].pc = "get_by_coordinates"
  /\ LET existing_location ==
           get_by_coordinates(locations, calls[c].lat, calls[c].lon)
     IN  calls' = [calls EXCEPT ![c] =
                     IF existing_location /= 0
                     THEN [@ EXCEPT !.pc = "create_temperature_record",
                                    !.location = existing_location]
                     ELSE [@ EXCEPT !.pc = "create_with_user"]]
  /\ UNCHANGED <<users, locations, temperature_records, uv_records, env>>

(* location = location_crud.create_with_user(db, obj_in=..., user_id=user.id) *)
CreateWithUser(c) ==
  /\ calls[c].pc = "create_with_user"
  /\ LET location_info == TheWeather(calls[c]).location
         row == [latitude |-> calls[c].lat, longitude |-> calls[c].lon,
                 city |-> location_info.city,
                 country |-> location_info.country,
                 user_id |-> calls[c].user]
     IN  IF LocationUnique(locations, row)
         THEN /\ locations' = Append(locations, row)
              /\ calls' = [calls EXCEPT ![c].pc = "create_temperature_record",
                                        ![c].location = Len(locations) + 1]
              /\ env' = env
         ELSE /\ locations' = locations
              /\ calls' = [calls EXCEPT ![c] = SaveFailed(@)]
              /\ env' = Fault(c, "IntegrityError")
  /\ UNCHANGED <<users, temperature_records, uv_records>>

(* temperature_record_crud.create_from_weather_data(...) *)
CreateTemperatureRecord(c) ==
  /\ calls[c].pc = "create_temperature_record"
  /\ LET row == [temperature |-> GetOptional(TheWeather(calls[c]).current, "temp"),
                 location_id |-> calls[c].location]
     IN  IF TemperatureNotNull(row)
         THEN /\ temperature_records' = Append(temperature_records, row)
              /\ calls' = [calls EXCEPT ![c].pc = "create_uv_record"]
              /\ env' = env
         ELSE /\ temperature_records' = temperature_records
              /\ calls' = [calls EXCEPT ![c] = SaveFailed(@)]
              /\ env' = Fault(c, "IntegrityError")
  /\ UNCHANGED <<users, locations, uv_records>>

(* uv_record_crud.create_from_weather_data(...), then the response *)
CreateUVRecord(c) ==
  /\ calls[c].pc = "create_uv_record"
  /\ LET row == [uv_index |-> GetOptional(TheWeather(calls[c]).current, "uvi"),
                 location_id |-> calls[c].location]
     IN  IF UVNotNull(row)
         THEN /\ uv_records' = Append(uv_records, row)
              /\ calls' = [calls EXCEPT ![c] = Respond(@)]
              /\ env' = env
         ELSE /\ uv_records' = uv_records
              /\ calls' = [calls EXCEPT ![c] = SaveFailed(@)]
              /\ env' = Fault(c, "IntegrityError")
  /\ UNCHANGED <<users, locations, temperature_records>>

(* A refused statement that takes the request's temperature row with it. *)
DatabaseErrorRollsBack(c) ==
  /\ calls[c].pc \in SavePcs
  /\ calls' = [calls EXCEPT ![c] = SaveFailed(@)]
  /\ env' = [Fault(c, "OperationalError") EXCEPT !.refused = TRUE]
  /\ temperature_records' =
        IF calls[c].pc = "create_uv_record"
        THEN SubSeq(temperature_records, 1, Len(temperature_records) - 1)
        ELSE temperature_records
  /\ UNCHANGED <<users, locations, uv_records>>

(* The database refuses the statement of the current persistence step. *)
DatabaseError(c) ==
  /\ calls[c].pc \in SavePcs
  /\ calls' = [calls EXCEPT ![c] = SaveFailed(@)]
  /\ env' = [Fault(c, "OperationalError") EXCEPT !.refused = TRUE]
  /\ UNCHANGED <<users, locations, temperature_records, uv_records>>

(* One step of the request c. *)
WeatherStep(c) ==
  \/ \E provider \in ProviderOutcomes :
        \E geocode \in IF provider = "ok" THEN GeocodeOutcomes ELSE {"none"} :
           FetchWeather(c, provider, geocode)
  \/ GetByName(c)
  \/ UsernameTaken(c)
  \/ AddUser(c)
  \/ GetByCoordinates(c)
  \/ CreateWithUser(c)
  \/ CreateTemperatureRecord(c)
  \/ CreateUVRecord(c)
  \/ DatabaseError(c)

(* A location row that the store may hold before the request. *)
SeedLocation ==
  [latitude |-> -37, longitude |-> 144, city |-> "Melbourne",
   country |-> "Australia", user_id |-> 1]

(* One request against any store. *)
InitWeather ==
  /\ NoRequest
  /\ NewManager
  /\ \E k \in 0..Len(SeedUsers) : users = SubSeq(SeedUsers, 1, k)
  /\ locations \in IF users = <<>> THEN {<<>>} ELSE {<<>>, <<SeedLocation>>}
  /\ temperature_records = <<>>
  /\ uv_records = <<>>
  /\ calls = <<>>
  /\ env = NoEnv

NextWeather ==
  /\ \/ /\ calls = <<>>
        /\ \E lat \in Latitudes, lon \in Longitudes, name \in DisplayNames :
              post_weather(lat, lon, name)
     \/ \E c \in DOMAIN calls : WeatherStep(c)
  /\ UNCHANGED <<svars, dbm>>

SpecWeather == InitWeather /\ [][NextWeather]_vars

(* Up to MaxCalls requests for the same coordinates, in any interleaving of
   their steps, against a store that holds users only. *)
InitWeatherCalls ==
  /\ NoRequest
  /\ NewManager
  /\ \E k \in 0..Len(SeedUsers) : users = SubSeq(SeedUsers, 1, k)
  /\ locations = <<>>
  /\ temperature_records = <<>>
  /\ uv_records = <<>>
  /\ calls = <<>>
  /\ env = NoEnv

NextWeatherCalls ==
  /\ \/ \E name \in DisplayNames :
           post_weather(SeedLocation.latitude, SeedLocation.longitude, name)
     \/ \E c \in DOMAIN calls : WeatherStep(c)
  /\ UNCHANGED <<svars, dbm>>

SpecWeatherCalls == InitWeatherCalls /\ [][NextWeatherCalls]_vars

(***************************************************************************)
(* DatabaseSessionManager.initialize.  dbm holds the manager's             *)
(* _initialized flag and the calls of initialize, each with its position,  *)
(* its retry_count, the connection attempts it made and what it returned.  *)
(***************************************************************************)
MaxInitCalls == 2

MAX_RETRIES == 3

(* create the engine, then "SELECT 1": it works, raises an SQLAlchemyError,
   or raises an error that is no SQLAlchemyError. *)
ConnectOutcomes == {"ok", "SQLAlchemyError", "OSError"}

(* The loop that gives up on the attempt count alone. *)
GiveUpIgnoresRetry(retry, retry_count) == retry_count >= MAX_RETRIES

(* if not retry or retry_count >= MAX_RETRIES: break *)
GiveUp(retry, retry_count) == ~retry \/ retry_count >= MAX_RETRIES

(* initialize(retry) up to its first connection attempt. *)
BeginInitialize(retry) ==
  [dbm EXCEPT !.calls = Append(@,
     IF dbm._initialized
     THEN [pc |-> "done", retry |-> retry, retry_count |-> 0,
           attempts |-> 0, returned |-> "True"]
     ELSE [pc |-> "while", retry |-> retry, retry_count |-> 0,
           attempts |-> 0, returned |-> "none"])]

initialize(retry) ==
  /\ Len(dbm.calls) < MaxInitCalls
  /\ dbm' = BeginInitialize(retry)

(* One iteration of "while retry_count < MAX_RETRIES". *)
Connect(c, outcome) ==
  /\ c \in DOMAIN dbm.calls
  /\ dbm.calls[c].pc = "while"
  /\ dbm.calls[c].retry_count < MAX_RETRIES
  /\ LET call == [dbm.calls[c] EXCEPT !.attempts = @ + 1]
         retry_count == call.retry_count + 1
     IN  CASE outcome = "ok" ->
                dbm' = [_initialized |-> TRUE,
                        calls |-> [dbm.calls EXCEPT ![c] =
                                     [call EXCEPT !.pc = "done",
                                                  !.returned = "True"]]]
           [] outcome = "SQLAlchemyError" ->
                dbm' = [dbm EXCEPT !.calls[c] =
                          IF GiveUp(call.retry, retry_count)
                          THEN [call EXCEPT !.retry_count = retry_count,
                                            !.pc = "done",
                                            !.returned = "False"]
                          ELSE [call EXCEPT !.retry_count = retry_count]]
           [] OTHER ->
                dbm' = [dbm EXCEPT !.calls[c] =
                          [call EXCEPT !.pc = "done", !.returned = "raise"]]

InitDb ==
  /\ NoRequest
  /\ NoWeather
  /\ NewManager

NextDb ==
  /\ \/ \E retry \in BOOLEAN : initialize(retry)
     \/ \E c \in DOMAIN dbm.calls, outcome \in ConnectOutcomes :
           Connect(c, outcome)
  /\ UNCHANGED <<svars, wvars>>

(* A call of initialize that has started keeps running: every connection
   attempt ends, and the sleep between two attempts is finite. *)
FairDb ==
  \A c \in 1..MaxInitCalls :
     WF_vars(\E outcome \in ConnectOutcomes :
                Connect(c, outcome) /\ UNCHANGED <<svars, wvars>>)

SpecDb == InitDb /\ [][NextDb]_vars /\ FairDb

(***************************************************************************)
(* GET /api/v1/weather/uv-index-heatmap and /temperature-map.  Strings are *)
(* sequences of characters; a URL is the sequence of its parts.            *)
(***************************************************************************)
(* period_map of get_uv_index_heatmap_url *)
uv_period_map ==
     (<<"a", "n", "n", "u", "a", "l">> :> <<"u", "v", "-", "a", "n", ".", "p", "n", "g">>)
  @@ (<<"j", "a", "n">> :> <<"u", "v", "-", "j", "a", "n", ".", "p", "n", "g">>)
  @@ (<<"f", "e", "b">> :> <<"u", "v", "-", "f", "e", "b", ".", "p", "n", "g">>)
  @@ (<<"m", "a", "r">> :> <<"u", "v", "-", "m", "a", "r", ".", "p", "n", "g">>)
  @@ (<<"a", "p", "r">> :> <<"u", "v", "-", "a", "p", "r", ".", "p", "n", "g">>)
  @@ (<<"m", "a", "y">> :> <<"u", "v", "-", "m", "a", "y", ".", "p", "n", "g">>)
  @@ (<<"j", "u", "n">> :> <<"u", "v", "-", "j", "u", "n", ".", "p", "n", "g">>)
  @@ (<<"j", "u", "l">> :> <<"u", "v", "-", "j", "u", "l", ".", "p", "n", "g">>)
  @@ (<<"a", "u", "g">> :> <<"u", "v", "-", "a", "u", "g", ".", "p", "n", "g">>)
  @@ (<<"s", "e", "p">> :> <<"u", "v", "-", "s", "e", "p", ".", "p", "n", "g">>)
  @@ (<<"o", "c", "t">> :> <<"u", "v", "-", "o", "c", "t", ".", "p", "n", "g">>)
  @@ (<<"n", "o", "v">> :> <<"u", "v", "-", "n", "o", "v", ".", "p", "n", "g">>)
  @@ (<<"d", "e", "c">> :> <<"u", "v", "-", "d", "e", "c", ".", "p", "n", "g">>)

(* temp_type_map of get_temperature_map_url *)
temp_type_map ==
     (<<"m", "e", "a", "n">> :> <<"m", "e", "a", "n">>)
  @@ (<<"m", "a", "x">> :> <<"m", "x", "t">>)
  @@ (<<"m", "i", "n">> :> <<"m", "n", "t">>)

(* period_map of get_temperature_map_url *)
temp_period_map ==
     (<<"a", "n", "n", "u", "a", "l">> :> <<"a", "n", ".", "p", "n", "g">>)
  @@ (<<"j", "a", "n">> :> <<"j", "a", "n", ".", "p", "n", "g">>)
  @@ (<<"f", "e", "b">> :> <<"f", "e", "b", ".", "p", "n", "g">>)
  @@ (<<"m", "a", "r">> :> <<"m", "a", "r", ".", "p", "n", "g">>)
  @@ (<<"a", "p", "r">> :> <<"a", "p", "r", ".", "p", "n", "g">>)
  @@ (<<"m", "a", "y">> :> <<"m", "a", "y", ".", "p", "n", "g">>)
  @@ (<<"j", "u", "n">> :> <<"j", "u", "n", ".", "p", "n", "g">>)
  @@ (<<"j", "u", "l">> :> <<"j", "u", "l", ".", "p", "n", "g">>)
  @@ (<<"a", "u", "g">> :> <<"a", "u", "g", ".", "p", "n", "g">>)
  @@ (<<"s", "e", "p">> :> <<"s", "e", "p", ".", "p", "n", "g">>)
  @@ (<<"o", "c", "t">> :> <<"o", "c", "t", ".", "p", "n", "g">>)
  @@ (<<"n", "o", "v">> :> <<"n", "o", "v", ".", "p", "n", "g">>)
  @@ (<<"d", "e", "c">> :> <<"d", "e", "c", ".", "p", "n", "g">>)

regions ==
  {<<"a", "u", "s">>, <<"n", "s">>, <<"n", "t">>, <<"q", "d">>, <<"s", "a">>, <<"t", "a">>, <<"v", "c">>, <<"w", "a">>}

(* period_display of both endpoints *)
period_display ==
     (<<"a", "n", "n", "u", "a", "l">> :> <<"A", "n", "n", "u", "a", "l">>)
  @@ (<<"j", "a", "n">> :> <<"J", "a", "n", "u", "a", "r", "y">>)
  @@ (<<"f", "e", "b">> :> <<"F", "e", "b", "r", "u", "a", "r", "y">>)
  @@ (<<"m", "a", "r">> :> <<"M", "a", "r", "c", "h">>)
  @@ (<<"a", "p", "r">> :> <<"A", "p", "r", "i", "l">>)
  @@ (<<"m", "a", "y">> :> <<"M", "a", "y">>)
  @@ (<<"j", "u", "n">> :> <<"J", "u", "n", "e">>)
  @@ (<<"j", "u", "l">> :> <<"J", "u", "l", "y">>)
  @@ (<<"a", "u", "g">> :> <<"A", "u", "g", "u", "s", "t">>)
  @@ (<<"s", "e", "p">> :> <<"S", "e", "p", "t", "e", "m", "b", "e", "r">>)
  @@ (<<"o", "c", "t">> :> <<"O", "c", "t", "o", "b", "e", "r">>)
  @@ (<<"n", "o", "v">> :> <<"N", "o", "v", "e", "m", "b", "e", "r">>)
  @@ (<<"d", "e", "c">> :> <<"D", "e", "c", "e", "m", "b", "e", "r">>)

(* temp_type_display of get_temperature_map *)
temp_type_display ==
     (<<"m", "e", "a", "n">> :> <<"M", "e", "a", "n", " ", "T", "e", "m", "p", "e", "r", "a", "t", "u", "r", "e">>)
  @@ (<<"m", "a", "x">> :> <<"M", "a", "x", "i", "m", "u", "m", " ", "T", "e", "m", "p", "e", "r", "a", "t", "u", "r", "e">>)
  @@ (<<"m", "i", "n">> :> <<"M", "i", "n", "i", "m", "u", "m", " ", "T", "e", "m", "p", "e", "r", "a", "t", "u", "r", "e">>)

(* region_display of get_temperature_map *)
region_display ==
     (<<"a", "u", "s">> :> <<"A", "u", "s", "t", "r", "a", "l", "i", "a">>)
  @@ (<<"n", "s">> :> <<"N", "e", "w", " ", "S", "o", "u", "t", "h", " ", "W", "a", "l", "e", "s">>)
  @@ (<<"n", "t">> :> <<"N", "o", "r", "t", "h", "e", "r", "n", " ", "T", "e", "r", "r", "i", "t", "o", "r", "y">>)
  @@ (<<"q", "d">> :> <<"Q", "u", "e", "e", "n", "s", "l", "a", "n", "d">>)
  @@ (<<"s", "a">> :> <<"S", "o", "u", "t", "h", " ", "A", "u", "s", "t", "r", "a", "l", "i", "a">>)
  @@ (<<"t", "a">> :> <<"T", "a", "s", "m", "a", "n", "i", "a">>)
  @@ (<<"v", "c">> :> <<"V", "i", "c", "t", "o", "r", "i", "a">>)
  @@ (<<"w", "a">> :> <<"W", "e", "s", "t", "e", "r", "n", " ", "A", "u", "s", "t", "r", "a", "l", "i", "a">>)

Invalid(what, value) == Raise("ValueError", [what |-> what, value |-> value])

(* The service without .lower() in its membership test. *)
get_uv_index_heatmap_url_exact(period) ==
  IF period \notin DOMAIN uv_period_map
  THEN Invalid("period", period)
  ELSE Return(<<"bom_uv_base_url", "/", uv_period_map[lower(period)]>>)

(* WeatherService.get_uv_index_heatmap_url *)
get_uv_index_heatmap_url(period) ==
  IF lower(period) \notin DOMAIN uv_period_map
  THEN Invalid("period", period)
  ELSE Return(<<"bom_uv_base_url", "/", uv_period_map[lower(period)]>>)

(* WeatherService.get_temperature_map_url *)
get_temperature_map_url(temp_type, region, period) ==
  IF lower(temp_type) \notin DOMAIN temp_type_map
  THEN Invalid("temperature type", temp_type)
  ELSE IF lower(region) \notin regions
  THEN Invalid("region", region)
  ELSE IF lower(period) \notin DOMAIN temp_period_map
  THEN Invalid("period", period)
  ELSE Return(<<"bom_temp_base_url", "/", temp_type_map[lower(temp_type)], "/",
                lower(region), "/",
                temp_type_map[lower(temp_type)] \o lower(region)
                   \o temp_period_map[lower(period)]>>)

BadRequest(r) == [status |-> 400, detail |-> r.msg]

(* The query values tried: members of the enumerations, the same in other
   letter case, and values that are no member in any case. *)
PeriodValues ==
  {<<"a", "n", "n", "u", "a", "l">>,
   <<"j", "a", "n">>,
   <<"J", "A", "N">>,
   <<"D", "e", "c">>,
   <<"M", "A", "Y">>,
   <<"j", "a", "n", "u", "a", "r", "y">>,
   <<>>}

TempTypeValues ==
  {<<"m", "e", "a", "n">>, <<"m", "a", "x">>, <<"M", "A", "X">>, <<"a", "v", "g">>}

RegionValues ==
  {<<"a", "u", "s">>, <<"n", "s">>, <<"V", "c">>, <<"n", "s", "w">>}

get_uv_index_heatmap(period) ==
  /\ pc' = "done"
  /\ req' = [op |-> "get_uv_index_heatmap", period |-> period]
  /\ LET original_url == get_uv_index_heatmap_url(period)
     IN  resp' =
           IF original_url.kind = "ValueError" THEN BadRequest(original_url)
           ELSE [status |-> 200,
                 url |-> <<"/api/v1/weather/proxy-image", "?url=">>
                            \o original_url.value,
                 period |-> Get(period_display, period, capitalize(period))]
  /\ UNCHANGED <<store, queries>>

get_temperature_map(temp_type, region, period) ==
  /\ pc' = "done"
  /\ req' = [op |-> "get_temperature_map", temp_type |-> temp_type,
             region |-> region, period |-> period]
  /\ LET original_url == get_temperature_map_url(temp_type, region, period)
     IN  resp' =
           IF original_url.kind = "ValueError" THEN BadRequest(original_url)
           ELSE [status |-> 200,
                 url |-> <<"/api/v1/weather/proxy-image", "?url=">>
                            \o original_url.value,
                 temp_type |-> Get(temp_type_display, temp_type,
                                   capitalize(temp_type)),
                 region |-> Get(region_display, region, upper(region)),
                 period |-> Get(period_display, period, capitalize(period))]
  /\ UNCHANGED <<store, queries>>

InitMaps ==
  /\ NoRequest
  /\ NoWeather
  /\ NewManager

NextMaps ==
  /\ pc = "idle"
  /\ \/ \E period \in PeriodValues : get_uv_index_heatmap(period)
     \/ \E temp_type \in TempTypeValues, region \in RegionValues,
           period \in PeriodValues :
           get_temperature_map(temp_type, region, period)
  /\ UNCHANGED <<wvars, dbm>>

SpecMaps == InitMaps /\ [][NextMaps]_vars

(***************************************************************************)
(* GET /api/v1/health.  Its get_db is the one of core/db/session.py: it    *)
(* yields the manager's AsyncSession, or the dummy session when the        *)
(* manager cannot be initialized.  req holds the request, the session it   *)
(* was given and what the database would answer to "SELECT 1".             *)
(***************************************************************************)
MaxHealthRequests == 2

HealthRequests == IF req.op = "health_check" THEN req.n ELSE 0

DatabaseStates == {"up", "down"}

(* The coroutine of session.execute("SELECT 1"), when it is awaited. *)
AwaitExecute(session, database) ==
  IF session = "DummySession"
  THEN Raise("RuntimeError", "No database connection available")
  ELSE IF database = "down"
  THEN Raise("OperationalError", "connection refused")
  ELSE Return("1")

(* db.execute(...) as health_check calls it: execute is "async def" in
   AsyncSession and in DummySession, so the call builds a coroutine and
   returns it; the handler never awaits it. *)
execute(session, database) == Return("coroutine")

(* health_check *)
health_check(session, database) ==
  LET r == execute(session, database)
  IN  [status |-> 200,
       body |-> [status |-> "healthy", version |-> "0.1.0",
                 environment |-> "local",
                 dependencies |->
                   [database |->
                      IF r.kind = "ok"
                      THEN [status |-> "healthy",
                            message |-> "Connected successfully"]
                      ELSE [status |-> "unhealthy", message |-> r.msg]]]]

(* The server's answer to an exception no handler catches. *)
InternalServerError ==
  [status |-> 500,
   body |-> [status |-> "error", version |-> "", environment |-> "",
             dependencies |->
               [database |-> [status |-> "", message |-> ""]]]]

(* A request arrives. *)
HealthRequest ==
  /\ pc \in {"idle", "done"}
  /\ HealthRequests < MaxHealthRequests
  /\ pc' = "get_db"
  /\ req' = [op |-> "health_check", n |-> HealthRequests + 1,
             session |-> "none", database |-> "none"]
  /\ resp' = NoResp
  /\ dbm' = dbm

(* get_db -> db_manager.session(): "if not self._initialized: success =
   await self.initialize()", else the session of session_factory. *)
GetDb ==
  /\ pc = "get_db"
  /\ IF dbm._initialized
     THEN /\ pc' = "health_check"
          /\ req' = [req EXCEPT !.session = "AsyncSession"]
          /\ dbm' = dbm
     ELSE /\ pc' = "initialize"
          /\ req' = req
          /\ dbm' = BeginInitialize(TRUE)
  /\ resp' = resp

(* One connection attempt of the awaited initialize; when it has returned:
   True -> the AsyncSession; False -> RuntimeError, which get_db catches and
   answers with the dummy session; any other error leaves get_db. *)
AwaitInitialize(outcome) ==
  /\ pc = "initialize"
  /\ Connect(Len(dbm.calls), outcome)
  /\ LET call == dbm'.calls[Len(dbm.calls)]
     IN  CASE call.returned = "True" ->
                /\ pc' = "health_check"
                /\ req' = [req EXCEPT !.session = "AsyncSession"]
                /\ resp' = resp
           [] call.returned = "False" ->
                /\ pc' = "health_check"
                /\ req' = [req EXCEPT !.session = "DummySession"]
                /\ resp' = resp
           [] call.returned = "raise" ->
                /\ pc' = "done"
                /\ req' = req
                /\ resp' = InternalServerError
           [] OTHER ->
                UNCHANGED <<pc, req, resp>>

(* The handler runs. *)
HealthCheck(database) ==
  /\ pc = "health_check"
  /\ pc' = "done"
  /\ req' = [req EXCEPT !.database = database]
  /\ resp' = health_check(req.session, database)
  /\ dbm' = dbm

(* The manager may have been initialized by an earlier request. *)
InitHealth ==
  /\ NoRequest
  /\ NoWeather
  /\ dbm \in {[_initialized |-> FALSE, calls |-> <<>>],
               [_initialized |-> TRUE, calls |-> <<>>]}

NextHealth ==
  /\ \/ HealthRequest
     \/ GetDb
     \/ \E outcome \in ConnectOutcomes : AwaitInitialize(outcome)
     \/ \E database \in DatabaseStates : HealthCheck(database)
  /\ UNCHANGED <<store, queries, wvars>>

SpecHealth == InitHealth /\ [][NextHealth]_vars

(***************************************************************************)
(* scripts/python/import_skin_cancer_data.py.  A CSV row is the dict that  *)
(* csv.DictReader yields, by column: "Data type", "Cancer group/site",     *)
(* "Year", "Sex", "Age group (years)", "Count"; the cells the script       *)
(* converts are sequences of characters.                                   *)
(***************************************************************************)
MaxCsvRows == 2

CsvRows ==
  { [data_type |-> "Actual", cancer_group |-> "Melanoma of the skin", year |-> <<"2", "0", "2", "0">>,
      sex |-> "Males", age_group |-> <<"'", "0", "0", "-", "0", "4">>, count |-> <<"0">>],
    [data_type |-> "Actual", cancer_group |-> "Melanoma of the skin", year |-> <<"2", "0", "2", "0">>,
      sex |-> "Females", age_group |-> <<"'", "0", "5", "-", "0", "9">>, count |-> <<"1", "2">>],
    [data_type |-> "Actual", cancer_group |-> "Melanoma of the skin", year |-> <<"2", "0", "2", "0">>,
      sex |-> "Males", age_group |-> <<"'", "0", "0", "-", "0", "4">>, count |-> <<"n", "p">>],
    [data_type |-> "Actual", cancer_group |-> "Melanoma of the skin", year |-> <<"2", "0", "x", "0">>,
      sex |-> "Males", age_group |-> <<"'", "0", "0", "-", "0", "4">>, count |-> <<"3">>],
    [data_type |-> "", cancer_group |-> "Melanoma of the skin", year |-> <<"2", "0", "2", "1">>,
      sex |-> "Males", age_group |-> <<"'", "0", "0", "-", "0", "4">>, count |-> <<"3">>] }

(* str.isdigit(), for ASCII text *)
isdigit(s) ==
  /\ s /= <<>>
  /\ \A i \in DOMAIN s : \E k \in DOMAIN Digits : Digits[k] = s[i]

DigitValue(ch) == (CHOOSE k \in DOMAIN Digits : Digits[k] = ch) - 1

(* int(s) of a digit string; any other text raises ValueError *)
RECURSIVE int(_)
int(s) ==
  IF Len(s) = 1 THEN DigitValue(s[1])
  ELSE 10 * int(SubSeq(s, 1, Len(s) - 1)) + DigitValue(s[Len(s)])

(* str.replace("'", "") *)
RECURSIVE remove_quotes(_)
remove_quotes(s) ==
  IF s = <<>> THEN <<>>
  ELSE IF Head(s) = "'" THEN remove_quotes(Tail(s))
  ELSE <<Head(s)>> \o remove_quotes(Tail(s))

(* The text of a character sequence. *)
RECURSIVE Text(_)
Text(s) == IF s = <<>> THEN "" ELSE Head(s) \o Text(Tail(s))

(* all(key in row and row[key] for key in [...]) *)
RowComplete(row) ==
  /\ row.data_type /= ""
  /\ row.cancer_group /= ""
  /\ row.year /= <<>>
  /\ row.sex /= ""
  /\ row.age_group /= <<>>
  /\ row.count /= <<>>

(* The row passes the checks of the loop body and int(row["Year"]). *)
RowImported(row) ==
  /\ RowComplete(row)
  /\ isdigit(row.count)
  /\ isdigit(row.year)

(* record = SkinCancerData(...) *)
RecordOf(row) ==
  [data_type |-> row.data_type,
   cancer_group |-> row.cancer_group,
   year |-> int(row.year),
   sex |-> row.sex,
   age_group |-> Text(remove_quotes(row.age_group)),
   count |-> int(row.count)]

(* The records that the loop over the reader adds, in file order. *)
RECURSIVE ImportedRecords(_)
ImportedRecords(csv) ==
  IF csv = <<>> THEN <<>>
  ELSE IF RowImported(Head(csv))
  THEN <<RecordOf(Head(csv))>> \o ImportedRecords(Tail(csv))
  ELSE ImportedRecords(Tail(csv))

(* "with db_manager.session() as session": session() is an
   asynccontextmanager, its result has no __enter__ and the with statement
   raises; the script's "except Exception" then exits with status 1. *)
EnterSession == Raise("TypeError", "does not support the context manager protocol")

(* db_manager.initialize() is called without await: its result is a
   coroutine object, which is true, so "if not ..." never exits. *)
InitializeResult == Return("coroutine")

import_skin_cancer_data(csv_exists, csv) ==
  /\ pc' = "done"
  /\ req' = [op |-> "import_skin_cancer_data", csv_exists |-> csv_exists,
             csv |-> csv, before |-> store]
  /\ IF InitializeResult.kind /= "ok" \/ ~csv_exists
     THEN /\ store' = store
          /\ resp' = [status |-> 1, records_imported |-> 0,
                      log |-> IF csv_exists
                              THEN "Failed to initialize database connection"
                              ELSE "CSV file not found"]
     ELSE IF EnterSession.kind /= "ok"
     THEN /\ store' = store
          /\ resp' = [status |-> 1, records_imported |-> 0,
                      log |-> "Unexpected error"]
     ELSE /\ store' = ImportedRecords(csv)
          /\ resp' = [status |-> 0,
                      records_imported |-> Len(ImportedRecords(csv)),
                      log |-> "Successfully imported"]
  /\ queries' = queries

InitImport ==
  /\ store \in SeqsUpTo(SkinCancerData, MaxRows)
  /\ pc = "idle"
  /\ req = NoReq
  /\ resp = NoResp
  /\ queries = <<>>
  /\ NoWeather
  /\ NewManager

NextImport ==
  /\ pc = "idle"
  /\ \E csv_exists \in BOOLEAN, csv \in SeqsUpTo(CsvRows, MaxCsvRows) :
        import_skin_cancer_data(csv_exists, csv)
  /\ UNCHANGED <<wvars, dbm>>

SpecImport == InitImport /\ [][NextImport]_vars

(***************************************************************************)
(* The Google Maps service and its endpoints (services/google_maps.py,     *)
(* api/v1/google_maps.py).  A provider response is what the HTTP call      *)
(* gave: a transport outcome, the "status" of the JSON body and its        *)
(* results, each with its address components in the provider's order.      *)
(***************************************************************************)
MaxComponents == 3

AddressComponents ==
  { [types |-> {"locality", "political"},
     long_name |-> "Melbourne", short_name |-> "Melbourne"],
    [types |-> {"administrative_area_level_1", "political"},
     long_name |-> "Victoria", short_name |-> "VIC"],
    [types |-> {"country", "political"},
     long_name |-> "Australia", short_name |-> "AU"],
    [types |-> {"country", "political"},
     long_name |-> "New Zealand", short_name |-> "NZ"],
    [types |-> {"route"},
     long_name |-> "Swanston Street", short_name |-> "Swanston St"] }

GeocodingResults ==
  { [address_components |-> components,
     formatted_address |-> "Swanston St, Melbourne VIC",
     name |-> "Swanston St", lat |-> -37, lng |-> 144]
    : components \in SeqsUpTo(AddressComponents, MaxComponents) }

ProviderResponses ==
  { [transport |-> "transport_error", status |-> "", results |-> <<>>],
    [transport |-> "http_status_error", status |-> "", results |-> <<>>],
    [transport |-> "ok", status |-> "REQUEST_DENIED", results |-> <<>>],
    [transport |-> "ok", status |-> "ZERO_RESULTS", results |-> <<>>],
    [transport |-> "ok", status |-> "OK", results |-> <<>>] }
  \cup
  { [transport |-> "ok", status |-> "OK", results |-> <<result>>]
    : result \in GeocodingResults }

(* settings.GOOGLE_MAPS_API_KEY *)
ApiKeys == {None, {"key"}}

(* "country" in component.get("types", []) and
   component.get("short_name") == "AU", for some component *)
is_in_australia(components) ==
  \E i \in DOMAIN components :
     /\ "country" \in components[i].types
     /\ components[i].short_name = "AU"

(* The loop "for component in result.get("address_components", [])" that
   extracts city and country; the elif condition is, by the precedence of
   and over or, (administrative_area_level_1 and not city) or
   city == "Unknown". *)
RECURSIVE ExtractLoop(_, _, _)
ExtractLoop(components, city, country) ==
  IF components = <<>> THEN [city |-> city, country |-> country]
  ELSE LET component == Head(components)
       IN  IF "locality" \in component.types
           THEN ExtractLoop(Tail(components), component.long_name, country)
           ELSE IF \/ /\ "administrative_area_level_1" \in component.types
                      /\ city = ""
                   \/ city = "Unknown"
           THEN ExtractLoop(Tail(components), component.long_name, country)
           ELSE IF "country" \in component.types
           THEN ExtractLoop(Tail(components), city, component.long_name)
           ELSE ExtractLoop(Tail(components), city, country)

ExtractCityCountry(components) == ExtractLoop(components, "Unknown", "Unknown")

(* GoogleMapsService.geocode_address *)
geocode_address(api_key, response) ==
  IF api_key = None
  THEN Raise("ValueError", "Google Maps API key is not configured")
  ELSE IF response.transport /= "ok"
  THEN Raise("ValueError", "Error geocoding address")
  ELSE IF response.status /= "OK"
  THEN Raise("ValueError", "Google Geocoding API error")
  ELSE IF response.results = <<>>
  THEN Raise("IndexError", "list index out of range")
  ELSE LET result == response.results[1]
           extracted == ExtractCityCountry(result.address_components)
       IN  IF ~is_in_australia(result.address_components)
           THEN Raise("ValueError", "Location is not in Australia")
           ELSE Return([formatted_address |-> result.formatted_address,
                        lat |-> result.lat, lng |-> result.lng,
                        city |-> extracted.city,
                        country |-> extracted.country])

(* GoogleMapsService.reverse_geocode, on the provider's response. *)
ReverseGeocode(api_key, response, lat, lng) ==
  IF api_key = None
  THEN Raise("ValueError", "Google Maps API key is not configured")
  ELSE IF response.transport /= "ok"
  THEN Raise("ValueError", "Error reverse geocoding")
  ELSE IF response.status /= "OK" /\ response.status /= "ZERO_RESULTS"
  THEN Raise("ValueError", "Google Reverse Geocoding API error")
  ELSE IF response.results = <<>>
  THEN Return([lat |-> lat, lng |-> lng])
  ELSE LET result == response.results[1]
           extracted == ExtractCityCountry(result.address_components)
       IN  IF ~is_in_australia(result.address_components)
           THEN Raise("ValueError", "Location is not in Australia")
           ELSE Return([formatted_address |-> result.formatted_address,
                        name |-> result.formatted_address,
                        lat |-> lat, lng |-> lng,
                        city |-> extracted.city,
                        country |-> extracted.country])

(* request.<name> on a pydantic model: a field of the schema, or
   AttributeError. *)
Attribute(request, name) ==
  IF name \in DOMAIN request THEN Return(request[name])
  ELSE Raise("AttributeError", name)

(* except ValueError -> 400 with str(e); except Exception -> 500 *)
MapsResponse(r, failure) ==
  IF r.kind = "ok"
  THEN [status |-> 200, detail |-> "", body |-> {r.value}, result |-> r]
  ELSE IF r.kind = "ValueError"
  THEN [status |-> 400, detail |-> r.msg, body |-> None, result |-> r]
  ELSE [status |-> 500, detail |-> failure, body |-> None, result |-> r]

(* Request validation failed: 422 before the handler runs. *)
Unprocessable ==
  [status |-> 422, detail |-> "validation error", body |-> None,
   result |-> Raise("RequestValidationError", "validation error")]

(* The arguments of the service call are evaluated first; the schemas
   AddressPredictionRequest and PlaceDetailsRequest have no session_token,
   and the service methods take one argument. *)
CallWithSessionToken(request) ==
  LET session_token == Attribute(request, "session_token")
  IN  IF session_token.kind /= "ok" THEN session_token
      ELSE Raise("TypeError", "takes 2 positional arguments but 3 were given")

(* POST /api/v1/google-maps/address-predictions *)
post_address_predictions(input, api_key, response) ==
  LET request == [input |-> input]
  IN  /\ pc' = "done"
      /\ req' = [op |-> "address_predictions", request |-> request,
                 api_key |-> api_key, response |-> response]
      /\ resp' = IF Len(input) < 2 THEN Unprocessable
                 ELSE MapsResponse(CallWithSessionToken(request),
                                   "Error fetching address predictions")

(* POST /api/v1/google-maps/place-details *)
post_place_details(place_id, api_key, response) ==
  LET request == [place_id |-> place_id]
  IN  /\ pc' = "done"
      /\ req' = [op |-> "place_details", request |-> request,
                 api_key |-> api_key, response |-> response]
      /\ resp' = MapsResponse(CallWithSessionToken(request),
                              "Error fetching place details")

(* POST /api/v1/google-maps/geocode *)
post_geocode(address, api_key, response) ==
  LET request == [address |-> address]
  IN  /\ pc' = "done"
      /\ req' = [op |-> "geocode", request |-> request,
                 api_key |-> api_key, response |-> response]
      /\ resp' = IF Len(address) < 3 THEN Unprocessable
                 ELSE MapsResponse(geocode_address(api_key, response),
                                   "Error geocoding address")

(* WeatherService.get_weather_data calls reverse_geocode with the
   request's coordinates. *)
CallReverseGeocode(api_key, response) ==
  /\ pc' = "done"
  /\ req' = [op |-> "reverse_geocode", request |-> [lat |-> -37, lng |-> 144],
             api_key |-> api_key, response |-> response]
  /\ resp' = [status |-> 0, detail |-> "", body |-> None,
              result |-> ReverseGeocode(api_key, response, -37, 144)]

InitMapsService ==
  /\ NoRequest
  /\ NoWeather
  /\ NewManager

NextMapsService ==
  /\ pc = "idle"
  /\ \E api_key \in ApiKeys, response \in ProviderResponses :
        \/ \E input \in {"M", "Me"} :
              post_address_predictions(input, api_key, response)
        \/ post_place_details("ChIJ", api_key, response)
        \/ \E address \in {"Me", "Mel"} :
              post_geocode(address, api_key, response)
        \/ CallReverseGeocode(api_key, response)
  /\ UNCHANGED <<store, queries, wvars, dbm>>

SpecMapsService == InitMapsService /\ [][NextMapsService]_vars

(***************************************************************************)
(* GET /api/v1/weather/proxy-image (api/v1/weather.py).  URLs are          *)
(* sequences of characters; the upstream source answers with a status code *)
(* and possibly a content type, or the fetch raises.                       *)
(***************************************************************************)
ProxyUrls ==
  { <<"h", "t", "t", "p", ":", "/", "/", "b", "o", "m", "/", "a", ".",
    "p", "n", "g">>,
    <<"h", "t", "t", "p", "s", ":", "/", "/", "b", "o", "m", "/", "a",
    ".", "p", "n", "g">>,
    <<"b", "o", "m", "/", "a", ".", "p", "n", "g">>,
    <<"/", "a", "p", "i", "/", "v", "1", "/", "w", "e", "a", "t", "h",
    "e", "r", "/", "p", "r", "o", "x", "y", "-", "i", "m", "a", "g", "e",
    "?", "u", "r", "l", "=", "b", "o", "m", "%", "2", "F", "a", ".", "p",
    "n", "g">>,
    <<"/", "a", "p", "i", "/", "v", "1", "/", "w", "e", "a", "t", "h",
    "e", "r", "/", "p", "r", "o", "x", "y", "-", "i", "m", "a", "g", "e">> }

UpstreamStatusCodes == {200, 204, 301, 302, 400, 403, 404, 500, 502, 503}

UpstreamOutcomes ==
  { [kind |-> "response", status_code |-> code, content_type |-> content_type]
    : code \in UpstreamStatusCodes, content_type \in {None, {"image/jpeg"}} }
  \cup
  { [kind |-> error, status_code |-> 0, content_type |-> None]
    : error \in {"ConnectError", "TimeoutException", "InvalidURL"} }

(* str.startswith *)
startswith(s, prefix) ==
  /\ Len(s) >= Len(prefix)
  /\ SubSeq(s, 1, Len(prefix)) = prefix

(* The position of the first occurrence of sub in s, 0 if there is none. *)
find(s, sub) ==
  LET at == {i \in 1..(Len(s) - Len(sub) + 1) :
               SubSeq(s, i, i + Len(sub) - 1) = sub}
  IN  IF at = {} THEN 0 ELSE CHOOSE i \in at : \A j \in at : i <= j

(* url.split('url=', 1)[1] *)
NestedUrl(url) ==
  LET at == find(url, <<"u", "r", "l", "=">>)
  IN  IF at = 0 THEN Raise("IndexError", "list index out of range")
      ELSE Return(SubSeq(url, at + 4, Len(url)))

(* urllib.parse.unquote, for the escapes of "/" and ":" *)
RECURSIVE unquote(_)
unquote(s) ==
  IF s = <<>> THEN <<>>
  ELSE IF startswith(s, <<"%", "2", "F">>)
  THEN <<"/">> \o unquote(SubSeq(s, 4, Len(s)))
  ELSE IF startswith(s, <<"%", "3", "A">>)
  THEN <<":">> \o unquote(SubSeq(s, 4, Len(s)))
  ELSE <<Head(s)>> \o unquote(Tail(s))

ProxyPath ==
  <<"/", "a", "p", "i", "/", "v", "1", "/", "w", "e", "a", "t", "h", "e",
  "r", "/", "p", "r", "o", "x", "y", "-", "i", "m", "a", "g", "e">>

(* The URL that is fetched, or the error raised on the way to it. *)
TargetUrl(url) ==
  LET nested == IF startswith(url, ProxyPath)
                THEN IF NestedUrl(url).kind = "ok"
                     THEN Return(unquote(NestedUrl(url).value))
                     ELSE NestedUrl(url)
                ELSE Return(url)
  IN  IF nested.kind /= "ok" THEN nested
      ELSE IF /\ ~startswith(nested.value, <<"h", "t", "t", "p", ":", "/", "/">>)
              /\ ~startswith(nested.value,
                             <<"h", "t", "t", "p", "s", ":", "/", "/">>)
      THEN Return(<<"h", "t", "t", "p", ":", "/", "/">> \o nested.value)
      ELSE nested

(* raise HTTPException(status_code=response.status_code, ...) *)
UpstreamFailed(status_code) ==
  [kind |-> "HTTPException", status_code |-> status_code,
   msg |-> "Failed to retrieve the image from the source"]

(* The body of the try block. *)
ProxyTry(url, upstream) ==
  IF TargetUrl(url).kind /= "ok" THEN TargetUrl(url)
  ELSE IF upstream.kind /= "response" THEN Raise(upstream.kind, "fetch failed")
  ELSE IF upstream.status_code /= 200
  THEN UpstreamFailed(upstream.status_code)
  ELSE Return([media_type |-> IF upstream.content_type = None
                              THEN "image/png"
                              ELSE CHOOSE t \in upstream.content_type : TRUE])

(* "except Exception" encloses the whole try block, the raise of the
   HTTPException for a non-200 upstream included: HTTPException is an
   Exception. *)
proxy_image(url, upstream) ==
  LET r == ProxyTry(url, upstream)
  IN  /\ pc' = "done"
      /\ req' = [op |-> "proxy_image", url |-> url, upstream |-> upstream,
                 target |-> TargetUrl(url)]
      /\ resp' = IF r.kind = "ok"
                 THEN [status |-> 200, detail |-> "",
                       media_type |-> r.value.media_type]
                 ELSE [status |-> 500, detail |-> "Error proxying image",
                       media_type |-> ""]

InitProxy ==
  /\ NoRequest
  /\ NoWeather
  /\ NewManager

NextProxy ==
  /\ pc = "idle"
  /\ \E url \in ProxyUrls, upstream \in UpstreamOutcomes :
        proxy_image(url, upstream)
  /\ UNCHANGED <<store, queries, wvars, dbm>>

SpecProxy == InitProxy /\ [][NextProxy]_vars

(***************************************************************************)
(* Vocabulary of the properties.                                           *)
(***************************************************************************)
RECURSIVE SumFn(_)
SumFn(f) ==
  IF DOMAIN f = {} THEN 0
  ELSE LET k == CHOOSE x \in DOMAIN f : TRUE
       IN  f[k] + SumFn([x \in DOMAIN f \ {k} |-> f[x]])

SumRows(q) == SumFn([i \in 1..Len(q) |-> q[i].count])

(* The names of a group_by list that are field names, in input order. *)
ValidNames(group_by) ==
  SelectSeq(group_by, LAMBDA n : n \in {"data_type", "year", "sex", "age_group"})

UnknownNames(group_by) == Range(group_by) \ Range(ValidNames(group_by))

DuplicateFree(s) == \A i, j \in 1..Len(s) : s[i] = s[j] => i = j

CrudDone == pc = "done" /\ req.op = "get_grouped_data"

VisualizationDone == pc = "done" /\ req.op = "get_skin_cancer_visualization"

ListDone == pc = "done" /\ req.op = "get_skin_cancer_data"

(* A grouped result was returned, by the CRUD call or through the endpoint. *)
GroupedOk ==
  \/ CrudDone /\ resp.kind = "ok"
  \/ VisualizationDone /\ resp.status = 200

(* The rows the WHERE clause of the request selects. *)
Filtered == _apply_filters(store, req.filters)

(* The sum of the count metric over all groups of a grouped result. *)
SumOfResult(data, group_by) ==
  IF Len(group_by) = 1
  THEN LET M == data[group_by[1]]
       IN  SumFn([k \in DOMAIN M |-> M[k]["count"]])
  ELSE IF Len(group_by) = 2
  THEN LET M == data[group_by[1] \o "_" \o group_by[2]]
       IN  SumFn([k1 \in DOMAIN M |->
                    SumFn([k2 \in DOMAIN M[k1] |-> M[k1][k2]["count"]])])
  ELSE LET L == data["data"]
       IN  SumFn([i \in 1..Len(L) |-> L[i]["count"]])

(* What count_filtered returned, or returns, for the FilterSpec of the
   request. *)
CountFiltered ==
  IF VisualizationDone THEN resp.total ELSE count_filtered(store, req.filters)

ValidDuplicateFree(group_by) ==
  /\ Len(group_by) > 0
  /\ UnknownNames(group_by) = {}
  /\ DuplicateFree(group_by)

(***************************************************************************)
(* C1 (as stated): for a non-empty duplicate-free group_by of valid field  *)
(* names, the sum of the count metric over all groups of the result of     *)
(* get_grouped_data equals the value of count_filtered for the same        *)
(* FilterSpec.                                                             *)
(***************************************************************************)
C1_SumEqualsCountFiltered ==
  (GroupedOk /\ ValidDuplicateFree(req.group_by))
    => SumOfResult(resp.data, req.group_by) = CountFiltered

(***************************************************************************)
(* C1 (amended): for a non-empty duplicate-free group_by of valid field    *)
(* names, the sum of the count metric over all groups of the result equals *)
(* the sum of the count column over the rows count_filtered counts.        *)
(***************************************************************************)
C1_SumEqualsSumOfFilteredCounts ==
  (GroupedOk /\ ValidDuplicateFree(req.group_by))
    => SumOfResult(resp.data, req.group_by) = SumRows(Filtered)

C1_Witness ==
  /\ GroupedOk
  /\ ValidDuplicateFree(req.group_by)
  /\ Len(Filtered) = 2
  /\ SumOfResult(resp.data, req.group_by) = 8

(***************************************************************************)
(* C2: the rows _apply_filters selects are exactly the rows with           *)
(* cancer_group = "Melanoma of the skin" that equal the FilterSpec on      *)
(* every field set to a non-null value; checked on the total that          *)
(* count_filtered returns and on the page that get_filtered returns.       *)
(***************************************************************************)
MatchesFilterSpec(r, filters) ==
  /\ r.cancer_group = "Melanoma of the skin"
  /\ \A f \in {"data_type", "year", "sex", "age_group"} :
        filters[f] /= None => {r[f]} = filters[f]

SelectedByFilterSpec ==
  SelectSeq(store, LAMBDA r : MatchesFilterSpec(r, req.filters))

C2_FiltersSelectExactlyTheMatchingRows ==
  /\ ListDone =>
       /\ resp.total = Len(SelectedByFilterSpec)
       /\ resp.data = SubSeq(SelectedByFilterSpec, req.skip + 1,
                             Min(Len(SelectedByFilterSpec),
                                 req.skip + req.limit))
  /\ (VisualizationDone /\ resp.status = 200) =>
       resp.total = Len(SelectedByFilterSpec)

(***************************************************************************)
(* C3: the cancer_group predicate is always applied: get_filtered returns, *)
(* count_filtered counts and get_grouped_data sums no row of another       *)
(* cancer group, and with every FilterSpec field unset count_filtered is   *)
(* the number of all "Melanoma of the skin" rows of the store (and the     *)
(* grouped sum is the sum of their counts).                                *)
(***************************************************************************)
MelanomaRows ==
  SelectSeq(store, LAMBDA r : r.cancer_group = "Melanoma of the skin")

AllUnset(filters) == \A f \in DOMAIN filters : filters[f] = None

C3_CancerGroupAlwaysApplied ==
  /\ ListDone =>
       /\ \A i \in 1..Len(resp.data) :
             resp.data[i].cancer_group = "Melanoma of the skin"
       /\ resp.total <= Len(MelanomaRows)
       /\ AllUnset(req.filters) => resp.total = Len(MelanomaRows)
  /\ (VisualizationDone /\ resp.status = 200) =>
       /\ resp.total <= Len(MelanomaRows)
       /\ AllUnset(req.filters) => resp.total = Len(MelanomaRows)
  /\ GroupedOk =>
       /\ SumOfResult(resp.data, ValidNames(req.group_by))
            <= SumRows(MelanomaRows)
       /\ AllUnset(req.filters) =>
            SumOfResult(resp.data, ValidNames(req.group_by))
              = SumRows(MelanomaRows)

C3_Witness ==
  /\ VisualizationDone
  /\ resp.status = 200
  /\ AllUnset(req.filters)
  /\ Len(MelanomaRows) = 2
  /\ Len(store) = 3
  /\ resp.total = 2

(***************************************************************************)
(* C4 (as stated): get_grouped_data called with an empty group_by or with  *)
(* a group_by without a valid field name fails with a ValueError whose     *)
(* message identifies every invalid field name supplied, and returns no    *)
(* grouped result.                                                         *)
(***************************************************************************)
C4_ErrorIdentifiesInvalidFields ==
  (CrudDone /\ Len(ValidNames(req.group_by)) = 0) =>
     /\ resp.kind = "ValueError"
     /\ \A n \in Range(req.group_by) : n \in Range(resp.msg)
     /\ queries = <<>>

(***************************************************************************)
(* C4 (amended): get_grouped_data called with an empty group_by or with a  *)
(* group_by without a valid field name fails with a ValueError carrying    *)
(* the fixed message "At least one valid field must be specified for       *)
(* grouping", which names none of the supplied fields, and runs no grouped *)
(* query; the visualization endpoint rejects such a (non-empty) list with  *)
(* HTTP 400 and its own detail, which lists every invalid name supplied.   *)
(***************************************************************************)
C4_NoValidFieldError ==
  /\ (CrudDone /\ Len(ValidNames(req.group_by)) = 0) =>
        /\ resp.kind = "ValueError"
        /\ resp.msg =
             <<"At least one valid field must be specified for grouping">>
        /\ \A n \in Range(req.group_by) : n \notin Range(resp.msg)
        /\ "data" \notin DOMAIN resp
        /\ queries = <<>>
  /\ (VisualizationDone /\ Len(ValidNames(req.group_by)) = 0) =>
        /\ resp.status = 400
        /\ \A n \in Range(req.group_by) : n \in Range(resp.detail)
        /\ "data" \notin DOMAIN resp
        /\ queries = <<>>

C4_Witness ==
  /\ CrudDone
  /\ req.group_by = <<"bogus">>
  /\ Len(store) > 0
  /\ resp.kind = "ValueError"

(* The sum of count over the filtered rows that agree with the values vals
   on the fields fields (sequences of equal length). *)
SumMatching(q, fields, vals) ==
  SumRows(SelectSeq(q, LAMBDA r :
            \A i \in 1..Len(fields) : r[fields[i]] = vals[i]))

(***************************************************************************)
(* C5: with one group-by field f the result is {f: M}, the key set of M is *)
(* exactly the set of values of f among the filtered rows, and             *)
(* M[v] = {"count": the sum of count over the filtered rows with f = v}.   *)
(***************************************************************************)
C5_OneFieldShape ==
  (GroupedOk /\ Len(ValidNames(req.group_by)) = 1) =>
     LET f == ValidNames(req.group_by)[1]
         M == resp.data[f]
     IN  /\ DOMAIN resp.data = {f}
         /\ DOMAIN M = {Filtered[i][f] : i \in 1..Len(Filtered)}
         /\ \A v \in DOMAIN M :
               /\ DOMAIN M[v] = {"count"}
               /\ M[v]["count"] = SumMatching(Filtered, <<f>>, <<v>>)

C5_Witness ==
  /\ GroupedOk
  /\ req.group_by = <<"sex">>
  /\ Len(Filtered) = 3
  /\ resp.data = [sex |-> [Males |-> [count |-> 8], Females |-> [count |-> 2]]]

(***************************************************************************)
(* C6: with two group-by fields [f1, f2] the result has the single key     *)
(* "f1_f2"; its value maps v1 to a mapping from v2 to {"count": s}; a pair *)
(* (v1, v2) is present exactly when a filtered row has f1 = v1 and         *)
(* f2 = v2, and s is the sum of count over those rows.                     *)
(***************************************************************************)
C6_TwoFieldShape ==
  (GroupedOk /\ Len(ValidNames(req.group_by)) = 2) =>
     LET f1 == ValidNames(req.group_by)[1]
         f2 == ValidNames(req.group_by)[2]
         M == resp.data[f1 \o "_" \o f2]
     IN  /\ DOMAIN resp.data = {f1 \o "_" \o f2}
         /\ \A i \in 1..Len(Filtered) :
               /\ Filtered[i][f1] \in DOMAIN M
               /\ Filtered[i][f2] \in DOMAIN M[Filtered[i][f1]]
         /\ \A v1 \in DOMAIN M : \A v2 \in DOMAIN M[v1] :
               /\ \E i \in 1..Len(Filtered) :
                     Filtered[i][f1] = v1 /\ Filtered[i][f2] = v2
               /\ M[v1][v2] =
                    [count |-> SumMatching(Filtered, <<f1, f2>>, <<v1, v2>>)]

C6_Witness ==
  /\ GroupedOk
  /\ req.group_by = <<"year", "sex">>
  /\ LET M == resp.data["year_sex"]
     IN  /\ DOMAIN M = {2020}
         /\ DOMAIN M[2020] = {"Males", "Females"}
         /\ M[2020]["Males"] = [count |-> 8]

(***************************************************************************)
(* C7: with more than two group-by fields the result is {"data": L}; L has *)
(* one flat record per row of the grouped query, in the order of the rows, *)
(* one per distinct combination of group-by values among the filtered      *)
(* rows; a record holds every group-by field with its value and the summed *)
(* count.                                                                  *)
(***************************************************************************)
C7_FlatListShape ==
  (GroupedOk /\ Len(ValidNames(req.group_by)) > 2) =>
     LET fields == ValidNames(req.group_by)
         rows == queries[1].rows
         L == resp.data["data"]
     IN  /\ DOMAIN resp.data = {"data"}
         /\ Len(L) = Len(rows)
         /\ \A i \in 1..Len(L) :
               /\ DOMAIN L[i] = Range(fields) \cup {"count"}
               /\ \A f \in Range(fields) : L[i][f] = rows[i][f]
               /\ L[i]["count"] =
                    SumMatching(Filtered, fields,
                                [k \in 1..Len(fields) |-> L[i][fields[k]]])
         /\ \A i, j \in 1..Len(L) :
               (\A f \in Range(fields) : L[i][f] = L[j][f]) => i = j
         /\ \A n \in 1..Len(Filtered) : \E i \in 1..Len(L) :
               \A f \in Range(fields) : L[i][f] = Filtered[n][f]

C7_Witness ==
  /\ GroupedOk
  /\ req.group_by = <<"year", "sex", "age_group">>
  /\ Len(Filtered) = 3
  /\ Len(resp.data["data"]) = 2
  /\ resp.data["data"][1] =
       [year |-> 2020, sex |-> "Males", age_group |-> "00-04", count |-> 10]

(***************************************************************************)
(* C8: the validated group list that get_grouped_data uses for the GROUP   *)
(* BY and for the choice of the result shape holds each field name at most *)
(* once.                                                                   *)
(***************************************************************************)
C8_GroupListHasNoDuplicates ==
  \A n \in 1..Len(queries) :
     queries[n].kind = "grouped" => DuplicateFree(queries[n].group_by)

(***************************************************************************)
(* C9: the CRUD get_grouped_data called with at least one valid field name *)
(* together with unknown names does not fail; it groups by exactly the     *)
(* valid names in input order and returns what the call without the        *)
(* unknown names returns.                                                  *)
(***************************************************************************)
C9_UnknownNamesDropped ==
  (/\ CrudDone
   /\ Len(ValidNames(req.group_by)) > 0
   /\ UnknownNames(req.group_by) /= {}) =>
     /\ resp.kind = "ok"
     /\ queries[1].group_by = ValidNames(req.group_by)
     /\ [kind |-> "ok", data |-> resp.data, queries |-> queries]
          \in get_grouped_data(store, req.filters, ValidNames(req.group_by),
                               req.metrics)

C9_Witness ==
  /\ CrudDone
  /\ req.group_by = <<"bogus", "sex", "year">>
  /\ Len(Filtered) = 2
  /\ resp.kind = "ok"
  /\ DOMAIN resp.data = {"sex_year"}

(***************************************************************************)
(* C10: GET /api/v1/skin-cancer/visualization with a group_by in which at  *)
(* least one entry is not a valid field name responds with a 400-class     *)
(* error and runs no grouped query, even when other entries are valid.     *)
(***************************************************************************)
C10_InvalidEntryRejected ==
  (VisualizationDone /\ UnknownNames(req.group_by) /= {}) =>
     /\ resp.status \in 400..499
     /\ queries = <<>>

C10_Witness ==
  /\ VisualizationDone
  /\ req.group_by = <<"sex", "bogus">>
  /\ Len(store) > 0
  /\ resp.status = 400

(***************************************************************************)
(* C11: get_grouped_data called with a valid group_by and a metrics list   *)
(* that holds a name other than "count" completes without error: no SUM    *)
(* column is emitted for the unrecognized metric and a grouped result is   *)
(* returned.                                                               *)
(***************************************************************************)
MetricsDone == pc = "done" /\ req.op = "get_grouped_data_metrics"

C11_UnrecognizedMetricIgnored ==
  (MetricsDone /\ \E m \in Range(req.metrics) : m /= "count") =>
     /\ resp.kind = "ok"
     /\ \A i \in 1..Len(queries[1].rows) :
           DOMAIN queries[1].rows[i] \subseteq Range(req.group_by) \cup {"count"}

(***************************************************************************)
(* C12: GET /api/v1/skin-cancer returns as data the slice at positions     *)
(* skip .. skip+limit-1 of the filtered rows in store order and as total   *)
(* the number of all filtered rows, whatever skip and limit are, so that   *)
(* len(data) = min(limit, max(0, total - skip)).                           *)
(***************************************************************************)
Max(a, b) == IF a >= b THEN a ELSE b

C12_PageAndTotal ==
  ListDone =>
     LET n == Min(req.limit, Max(0, Len(Filtered) - req.skip))
     IN  /\ resp.status = 200
         /\ resp.total = Len(Filtered)
         /\ Len(resp.data) = Min(req.limit, Max(0, resp.total - req.skip))
         /\ resp.data = [i \in 1..n |-> Filtered[req.skip + i]]

C12_Witness ==
  /\ ListDone
  /\ req.skip = 1
  /\ req.limit = 1
  /\ resp.total = 3
  /\ Len(resp.data) = 1
  /\ resp.data[1] = Filtered[2]
  /\ Filtered[2] /= Filtered[1]

(***************************************************************************)
(* Vocabulary of the weather properties.                                   *)
(***************************************************************************)
Done(c) == c \in DOMAIN calls /\ calls[c].pc = "done"

(* The snapshot the service built in the latest fetch, if that was for c. *)
Fetched(c) ==
  get_weather_data(env.fetch.provider, env.fetch.geocode,
                   calls[c].lat, calls[c].lon)

GeocodeFailures ==
  {"no_api_key", "transport_error", "api_error", "not_in_australia"}

ProviderFailures == {"transport_error", "http_status_error"}

(***************************************************************************)
(* C13: when a persistence step of POST /api/v1/weather fails after a      *)
(* successful weather fetch, whichever step it is, the request still       *)
(* responds 200 and its body is the fetched weather snapshot.              *)
(***************************************************************************)
C13_PersistenceFailureStillResponds ==
  \A c \in DOMAIN calls :
     (Done(c) /\ env.fault.call = c) =>
        /\ env.fault.step \in SavePcs
        /\ ~calls[c].saved
        /\ calls[c].status = 200
        /\ env.fetch.call = c
        /\ Fetched(c).kind = "ok"
        /\ calls[c].body = [detail |-> "", weather |-> {Fetched(c).value}]

C13_Witness ==
  /\ Done(1)
  /\ env.fault = [call |-> 1, step |-> "create_uv_record",
                  error |-> "OperationalError"]
  /\ Len(temperature_records) = 1
  /\ uv_records = <<>>
  /\ calls[1].status = 200
  /\ calls[1].body.weather /= None

(***************************************************************************)
(* C14: when the reverse-geocoding sub-call fails (provider error, missing *)
(* API key, result outside Australia), get_weather_data does not raise: it *)
(* returns a snapshot whose location.city and location.country are         *)
(* "Unknown", and POST /api/v1/weather responds 200 with that snapshot.    *)
(***************************************************************************)
C14_GeocodeFailureGivesUnknown ==
  \A c \in DOMAIN calls :
     (/\ env.fetch.call = c
      /\ env.fetch.provider = "ok"
      /\ env.fetch.geocode \in GeocodeFailures) =>
        /\ calls[c].weather /= None
        /\ TheWeather(calls[c]).location.city = "Unknown"
        /\ TheWeather(calls[c]).location.country = "Unknown"
        /\ TheWeather(calls[c]).current = CurrentWeather
        /\ Done(c) => /\ calls[c].status = 200
                      /\ calls[c].body.weather = calls[c].weather

C14_Witness ==
  /\ Done(1)
  /\ env.fetch = [call |-> 1, provider |-> "ok",
                  geocode |-> "not_in_australia"]
  /\ calls[1].status = 200
  /\ calls[1].saved
  /\ TheWeather(calls[1].body).location.city = "Unknown"
  /\ Len(uv_records) = 1

(***************************************************************************)
(* C15: when the weather provider call fails, by a transport error or a    *)
(* non-2xx status, POST /api/v1/weather responds with a 5xx status.        *)
(***************************************************************************)
C15_ProviderFailureIsServerError ==
  \A c \in DOMAIN calls :
     (/\ Done(c)
      /\ env.fetch.call = c
      /\ env.fetch.provider \in ProviderFailures) =>
        calls[c].status \in 500..599

(***************************************************************************)
(* Vocabulary of the properties of several requests.                       *)
(***************************************************************************)
AllDone == calls /= <<>> /\ \A c \in DOMAIN calls : Done(c)

(* The rows of a table at the coordinates of the requests. *)
RowsAt(latitude, longitude) ==
  {i \in DOMAIN locations :
      /\ locations[i].latitude = latitude
      /\ locations[i].longitude = longitude}

(* The k-th username get_or_create tries for a display name. *)
Candidate(name, k) ==
  IF k = 0 THEN Slug(name) ELSE Slug(name) \o <<"_">> \o str(k)

(* The request c is past its user get_or_create. *)
PastGetOrCreate(c) ==
  /\ calls[c].weather /= None
  /\ calls[c].pc \notin {"get_weather_data", "get_by_name", "username_taken",
                         "add_user"}

(***************************************************************************)
(* C16: n sequential successful POST /api/v1/weather calls with identical  *)
(* (lat, lon) leave exactly one location row for these coordinates and add *)
(* exactly n temperature rows and n UV rows, all referencing that row.     *)
(***************************************************************************)
C16_SequentialCallsShareOneLocation ==
  (/\ AllDone
   /\ ~env.overlap
   /\ ~env.refused
   /\ \A c \in DOMAIN calls : calls[c].status = 200) =>
     LET here == RowsAt(calls[1].lat, calls[1].lon)
     IN  /\ Cardinality(here) = 1
         /\ Len(temperature_records) = Len(calls)
         /\ Len(uv_records) = Len(calls)
         /\ \A i \in DOMAIN temperature_records :
               temperature_records[i].location_id \in here
         /\ \A i \in DOMAIN uv_records : uv_records[i].location_id \in here

(***************************************************************************)
(* C17: nothing keeps create_with_user from adding a second location row   *)
(* with the same (latitude, longitude): the step ends either by inserting  *)
(* its row or because the database refused the statement, never because a  *)
(* row with these coordinates exists; so two requests whose lookups both   *)
(* found nothing both insert, and the store holds two such rows.           *)
(***************************************************************************)
C17_CreateWithUserNeverRejectsDuplicate ==
  [][\A c \in DOMAIN calls :
       (calls[c].pc = "create_with_user" /\ calls'[c].pc /= "create_with_user")
          => \/ /\ Len(locations') = Len(locations) + 1
                /\ locations'[Len(locations')].latitude = calls[c].lat
                /\ locations'[Len(locations')].longitude = calls[c].lon
                /\ calls'[c].pc = "create_temperature_record"
                /\ calls'[c].location = Len(locations')
             \/ /\ env'.fault = [call |-> c, step |-> "create_with_user",
                                  error |-> "OperationalError"]
                /\ locations' = locations]_vars

C17_Witness ==
  /\ AllDone
  /\ env.overlap
  /\ Len(locations) = 2
  /\ locations[1].latitude = locations[2].latitude
  /\ locations[1].longitude = locations[2].longitude
  /\ \A c \in DOMAIN calls : calls[c].status = 200 /\ calls[c].saved

(***************************************************************************)
(* C18: after non-overlapping user get_or_create calls no two user rows    *)
(* share a username; a call for a display name that has a row returns it   *)
(* without inserting, and a call for a new display name leaves a row for   *)
(* it whose username is the first free one of slug, slug_1, slug_2, ...    *)
(***************************************************************************)
C18_GetOrCreateLeavesUniqueUser ==
  (~env.overlap /\ ~env.refused) =>
     /\ \A i, j \in DOMAIN users :
           i /= j => users[i].username /= users[j].username
     /\ \A c \in DOMAIN calls :
           PastGetOrCreate(c) =>
              Cardinality({i \in DOMAIN users : users[i].name = calls[c].name})
                 = 1
     /\ \A i \in DOMAIN users :
           users[i].email = None =>
              \E k \in 0..Len(users) :
                 /\ users[i].username = Candidate(users[i].name, k)
                 /\ \A m \in 0..(k - 1) :
                       \E j \in 1..(i - 1) :
                          users[j].username = Candidate(users[i].name, m)

(***************************************************************************)
(* C19: a call of DatabaseSessionManager.initialize makes at most 3        *)
(* connection attempts, exactly 1 when retry is False; it returns True at  *)
(* the first attempt that succeeds and False once connection errors have   *)
(* exhausted its attempts; it always terminates; and once the manager is   *)
(* initialized every later call returns True without a connection attempt. *)
(***************************************************************************)
InitializeBounded ==
  \A c \in DOMAIN dbm.calls :
     LET call == dbm.calls[c]
     IN  /\ call.attempts <= 3
         /\ call.retry_count <= call.attempts
         /\ ~call.retry => call.attempts <= 1
         /\ (call.pc = "done" /\ ~call.retry /\ call.returned /= "True")
               => call.attempts = 1
         /\ call.returned = "True" => dbm._initialized
         /\ call.returned = "False"
               => /\ call.retry_count = call.attempts
                  /\ call.attempts = IF call.retry THEN 3 ELSE 1
         /\ call.pc = "done" <=> call.returned /= "none"

InitializeSteps ==
  /\ dbm._initialized => dbm'._initialized
  /\ \A c \in DOMAIN dbm.calls :
        /\ dbm.calls[c].pc = "done" => dbm'.calls[c] = dbm.calls[c]
        /\ (dbm'.calls[c].attempts > dbm.calls[c].attempts
            /\ dbm'.calls[c].retry_count = dbm.calls[c].retry_count)
              => dbm'.calls[c].pc = "done"
  /\ (dbm._initialized /\ Len(dbm'.calls) > Len(dbm.calls))
        => /\ dbm'.calls[Len(dbm'.calls)].returned = "True"
           /\ dbm'.calls[Len(dbm'.calls)].attempts = 0

C19_InitializeBoundedAndTerminates ==
  /\ []InitializeBounded
  /\ [][InitializeSteps]_vars
  /\ \A c \in 1..MaxInitCalls :
        [](c \in DOMAIN dbm.calls
             => <>(c \in DOMAIN dbm.calls /\ dbm.calls[c].pc = "done"))

C19_Witness ==
  /\ Len(dbm.calls) = 2
  /\ dbm.calls[1] = [pc |-> "done", retry |-> TRUE, retry_count |-> 2,
                      attempts |-> 3, returned |-> "True"]
  /\ dbm.calls[2] = [pc |-> "done", retry |-> FALSE, retry_count |-> 0,
                      attempts |-> 0, returned |-> "True"]

(***************************************************************************)
(* Vocabulary of the properties of the map endpoints.                      *)
(***************************************************************************)
HeatmapDone == pc = "done" /\ req.op = "get_uv_index_heatmap"

TemperatureMapDone == pc = "done" /\ req.op = "get_temperature_map"

Periods == DOMAIN period_display

TempTypes == DOMAIN temp_type_display

Regions == DOMAIN region_display

(* A value that is a member of the enumeration in some letter case. *)
KnownIgnoringCase(value, enumeration) == lower(value) \in enumeration

(* The display name of an accepted value. *)
Display(value, display, echo) ==
  IF value \in DOMAIN display THEN display[value] ELSE echo

(***************************************************************************)
(* C20, as the spec words it: the map endpoints called with a period,      *)
(* region or temp_type outside the fixed enumeration respond 200 and       *)
(* report the capitalized (period, temp_type) or upper-cased (region) echo *)
(* of the raw input as the display name.                                   *)
(***************************************************************************)
C20_OutsideEnumerationEchoed ==
  /\ (HeatmapDone /\ req.period \notin Periods) =>
        /\ resp.status = 200
        /\ resp.period = capitalize(req.period)
  /\ (/\ TemperatureMapDone
      /\ \/ req.temp_type \notin TempTypes
         \/ req.region \notin Regions
         \/ req.period \notin Periods) =>
        /\ resp.status = 200
        /\ req.temp_type \notin TempTypes
              => resp.temp_type = capitalize(req.temp_type)
        /\ req.region \notin Regions => resp.region = upper(req.region)
        /\ req.period \notin Periods => resp.period = capitalize(req.period)

(***************************************************************************)
(* C20, amended: a value that is no member of its enumeration in any       *)
(* letter case makes the endpoint respond 400 with the service's "Invalid" *)
(* error for the first such parameter (temp_type, region, period); when    *)
(* every value is a member up to letter case the endpoint responds 200,    *)
(* an exact lower-case member gets its display name, and any other         *)
(* spelling is echoed capitalized (period, temp_type) or upper-cased       *)
(* (region).                                                               *)
(***************************************************************************)
C20_UnknownRejectedOtherCaseEchoed ==
  /\ HeatmapDone =>
        IF KnownIgnoringCase(req.period, Periods)
        THEN /\ resp.status = 200
             /\ resp.period =
                  Display(req.period, period_display, capitalize(req.period))
        ELSE /\ resp.status = 400
             /\ resp.detail = [what |-> "period", value |-> req.period]
  /\ TemperatureMapDone =>
        IF ~KnownIgnoringCase(req.temp_type, TempTypes)
        THEN /\ resp.status = 400
             /\ resp.detail = [what |-> "temperature type",
                               value |-> req.temp_type]
        ELSE IF ~KnownIgnoringCase(req.region, Regions)
        THEN /\ resp.status = 400
             /\ resp.detail = [what |-> "region", value |-> req.region]
        ELSE IF ~KnownIgnoringCase(req.period, Periods)
        THEN /\ resp.status = 400
             /\ resp.detail = [what |-> "period", value |-> req.period]
        ELSE /\ resp.status = 200
             /\ resp.temp_type =
                  Display(req.temp_type, temp_type_display,
                          capitalize(req.temp_type))
             /\ resp.region =
                  Display(req.region, region_display, upper(req.region))
             /\ resp.period =
                  Display(req.period, period_display, capitalize(req.period))

C20_Witness ==
  /\ TemperatureMapDone
  /\ req.temp_type = <<"M", "A", "X">>
  /\ req.region = <<"V", "c">>
  /\ req.period = <<"J", "A", "N">>
  /\ resp.status = 200
  /\ resp.temp_type = <<"M", "a", "x">>
  /\ resp.region = <<"V", "C">>
  /\ resp.period = <<"J", "a", "n">>

(***************************************************************************)
(* Vocabulary of the properties of the health endpoint.                    *)
(***************************************************************************)
HealthDone == pc = "done" /\ req.op = "health_check"

(***************************************************************************)
(* C21: GET /api/v1/health always responds 200 with status "healthy", a    *)
(* version, an environment and a dependencies.database entry, whether the  *)
(* database is reachable, failing or not initialized.                      *)
(***************************************************************************)
C21_HealthAlwaysResponds200 ==
  HealthDone =>
     /\ resp.status = 200
     /\ resp.body.status = "healthy"
     /\ resp.body.version /= ""
     /\ resp.body.environment /= ""
     /\ resp.body.dependencies.database.status \in {"healthy", "unhealthy"}

(***************************************************************************)
(* C22: the dependencies.database.status of a health response is "healthy" *)
(* exactly when the SELECT 1 ping succeeds, and "unhealthy" with the error *)
(* message when it fails, the dummy session included.                      *)
(***************************************************************************)
C22_DatabaseStatusReflectsPing ==
  (HealthDone /\ resp.status = 200) =>
     LET ping == AwaitExecute(req.session, req.database)
         database == resp.body.dependencies.database
     IN  /\ database.status = "healthy" <=> ping.kind = "ok"
         /\ ping.kind /= "ok" => /\ database.status = "unhealthy"
                                 /\ database.message = ping.msg

ImportDone == pc = "done" /\ req.op = "import_skin_cancer_data"

(* A CSV row with the six required cells non-empty and a digit-only Count. *)
RowClaimed(row) == RowComplete(row) /\ isdigit(row.count)

(* C23: a run of the import on an existing CSV file leaves in the table
   exactly one record per CSV row that has all six required columns
   non-empty and a digit-only Count, none of the rows that were there
   before, and reports that number. *)
C23_ImportReplacesTable ==
  (ImportDone /\ req.csv_exists) =>
     LET claimed == {i \in DOMAIN req.csv : RowClaimed(req.csv[i])}
     IN  /\ Len(store) = Cardinality(claimed)
         /\ resp.records_imported = Cardinality(claimed)
         /\ req.before /= <<>> /\ claimed = {} => store = <<>>

(* C24: after a run of the import, every CSV row that qualifies for import
   has its record in the table, with data_type, cancer_group, year, sex,
   age_group and count equal to the CSV cells as written in the file. *)
C24_StoredAsWritten ==
  (ImportDone /\ req.csv_exists) =>
     \A i \in DOMAIN req.csv :
        RowImported(req.csv[i]) =>
           \E k \in DOMAIN store :
              /\ store[k].data_type = req.csv[i].data_type
              /\ store[k].cancer_group = req.csv[i].cancer_group
              /\ str(store[k].year) = req.csv[i].year
              /\ store[k].sex = req.csv[i].sex
              /\ store[k].age_group = Text(req.csv[i].age_group)
              /\ str(store[k].count) = req.csv[i].count

MapsDone(ops) == pc = "done" /\ req.op \in ops

(* The request was valid, the key configured and the provider answered OK. *)
ProviderAnsweredOK ==
  /\ resp.status /= 422
  /\ req.api_key /= None
  /\ req.response.transport = "ok"
  /\ req.response.status = "OK"

ChosenComponents == req.response.results[1].address_components

NotInAustralia == Raise("ValueError", "Location is not in Australia")

(* C25: when the provider returns results, geocode_address, get_place_details
   and reverse_geocode return a location only if the chosen result has a
   "country" component with short_name "AU"; otherwise they fail with
   "Location is not in Australia", and the geocode and place-details
   endpoints answer 400. *)
C25_OnlyAustralianResults ==
  (/\ MapsDone({"geocode", "place_details", "reverse_geocode"})
   /\ ProviderAnsweredOK
   /\ req.response.results /= <<>>) =>
     /\ resp.result.kind = "ok" => is_in_australia(ChosenComponents)
     /\ ~is_in_australia(ChosenComponents) =>
           /\ resp.result = NotInAustralia
           /\ req.op /= "reverse_geocode" =>
                 /\ resp.status = 400
                 /\ resp.detail = NotInAustralia.msg

(* C26: address-predictions and place-details, given a valid body, a
   configured key and a provider response with status OK (place-details: an
   Australian result), respond 200 with a body. *)
C26_PredictionsAndDetailsRespond200 ==
  (/\ MapsDone({"address_predictions", "place_details"})
   /\ ProviderAnsweredOK
   /\ req.op = "place_details" =>
         /\ req.response.results /= <<>>
         /\ is_in_australia(ChosenComponents)) =>
     /\ resp.status = 200
     /\ resp.body /= None

LongNames(components, type) ==
  {components[i].long_name : i \in {j \in DOMAIN components :
                                      type \in components[j].types}}

(* C29: in a returned location the country is the long_name of a "country"
   component whenever one is present, and the city is the long_name of a
   "locality" component if there is one, otherwise of an
   "administrative_area_level_1" component, otherwise "Unknown", whatever
   the order of the components. *)
C29_ExtractionIndependentOfOrder ==
  (/\ MapsDone({"geocode", "reverse_geocode"})
   /\ resp.result.kind = "ok"
   /\ "city" \in DOMAIN resp.result.value) =>
     LET location == resp.result.value
         countries == LongNames(ChosenComponents, "country")
         localities == LongNames(ChosenComponents, "locality")
         areas == LongNames(ChosenComponents, "administrative_area_level_1")
     IN  /\ countries /= {} => location.country \in countries
         /\ location.city \in
              (IF localities /= {} THEN localities
               ELSE IF areas /= {} THEN areas ELSE {"Unknown"})

ProxyDone == pc = "done" /\ req.op = "proxy_image"

(* C30: when the upstream source answers the proxy's fetch with a status
   code other than 200, the proxy responds with that status code and detail
   "Failed to retrieve the image from the source"; it responds 500 only
   when fetching raised an error (or the upstream status was itself 500). *)
C30_UpstreamStatusForwarded ==
  (ProxyDone /\ req.target.kind = "ok") =>
     /\ (req.upstream.kind = "response" /\ req.upstream.status_code /= 200) =>
           /\ resp.status = req.upstream.status_code
           /\ resp.detail = "Failed to retrieve the image from the source"
     /\ resp.status = 500 =>
           \/ req.upstream.kind /= "response"
           \/ req.upstream.status_code = 500

(* The persistence step (1 user, 2 location, 3 temperature row, 4 UV row)
   that a statement of get_weather belongs to. *)
StepOf(step) ==
  CASE step \in {"get_by_name", "username_taken", "add_user"} -> 1
    [] step \in {"get_by_coordinates", "create_with_user"} -> 2
    [] step = "create_temperature_record" -> 3
    [] step = "create_uv_record" -> 4
    [] OTHER -> 0

IsPrefix(s, t) == Len(s) <= Len(t) /\ SubSeq(t, 1, Len(s)) = s

Tables == <<users, locations, temperature_records, uv_records>>

(* C27: the persistence steps of POST /api/v1/weather commit one by one, in
   the order user, location, temperature row, UV row.  When step k fails, the
   failing step writes nothing, the request takes no further step, the rows
   of the steps before k are in the store (the user, the location at the
   request's coordinates, the temperature row), none of step k or later is,
   and no step ever removes a row. *)
C27_StepsCommitIndependently ==
  /\ [](\A c \in DOMAIN calls :
          (Done(c) /\ env.fault.call = c) =>
             LET k == StepOf(env.fault.step)
             IN  /\ k \in 1..4
                 /\ uv_records = <<>>
                 /\ k <= 3 => temperature_records = <<>>
                 /\ k = 4 => Len(temperature_records) = 1
                 /\ k >= 3 => RowsAt(calls[c].lat, calls[c].lon) /= {}
                 /\ k >= 2 => get_by_name(users, calls[c].name) /= 0)
  /\ [][/\ IsPrefix(users, users')
         /\ IsPrefix(locations, locations')
         /\ IsPrefix(temperature_records, temperature_records')
         /\ IsPrefix(uv_records, uv_records')
         /\ (\A c \in DOMAIN calls :
                /\ (calls[c].pc \in SavePcs /\ ~calls'[c].saved) =>
                      /\ Tables' = Tables
                      /\ calls'[c].pc = "done"
                /\ Done(c) => calls'[c] = calls[c])
         /\ (temperature_records' /= temperature_records =>
                \E d \in DOMAIN calls :
                   /\ calls[d].pc = "create_temperature_record"
                   /\ calls'[d].pc = "create_uv_record")
         /\ (uv_records' /= uv_records =>
                \E d \in DOMAIN calls :
                   /\ calls[d].pc = "create_uv_record"
                   /\ calls'[d].pc = "done")]_vars

(* A temperature row is left without a UV row of the same request. *)
C27_Witness ==
  /\ Done(1)
  /\ ~calls[1].saved
  /\ StepOf(env.fault.step) = 4
  /\ Len(temperature_records) = 1
  /\ temperature_records[1].location_id \in RowsAt(calls[1].lat, calls[1].lon)
  /\ uv_records = <<>>

(* C28: however the steps of concurrent POST /api/v1/weather requests for
   the same new display name interleave, the store afterwards holds at most
   one user row with that display name, and no two user rows share a
   username. *)
C28_ConcurrentGetOrCreateNoDuplicate ==
  AllDone =>
     /\ \A i, j \in DOMAIN users :
           i /= j => users[i].username /= users[j].username
     /\ \A c \in DOMAIN calls :
           Cardinality({i \in DOMAIN users : users[i].name = calls[c].name})
              <= 1

(* Two overlapping requests for the same new display name have both run
   their get_or_create to its end with the database accepting statements. *)
C28_Witness ==
  /\ AllDone
  /\ Len(calls) >= 2
  /\ env.overlap
  /\ ~env.refused
  /\ calls[1].name = calls[2].name
  /\ ~calls[1].saved
  /\ ~calls[2].saved
  /\ env.fault.step = "add_user"
====
